---- MODULE Spec2Model ----
(***************************************************************************)
(* Model of logly's log-persistence engine (muhammad-fiaz/logly, Rust):    *)
(*   - the rotating file writer (backend/file.rs: SimpleRollingWriter,     *)
(*     prune_old_files), checked under WSpec;                              *)
(*   - the sink registry, the dispatch routine and the per-sink async      *)
(*     workers (logger.rs, backend/logging.rs, backend/async.rs), checked  *)
(*     under Spec and FairSpec.                                            *)
(*                                                                         *)
(* File names are sequences of character codes.  A period token (the       *)
(* output of a chrono format string) is one code >= DailyTag: the format   *)
(* strings are injective on the period they print and never print a dot.   *)
(***************************************************************************)
EXTENDS Integers, Sequences, FiniteSets, TLC

(***************************************************************************)
(* Bounds of the model.                                                    *)
(***************************************************************************)
MaxTicks == 1
MaxWrites == 6
MaxWriteLen == 1
MaxFaults == 1
MaxSinks == 2
MaxMsgs == 3

(***************************************************************************)
(* Character codes and period-token codes.                                 *)
(***************************************************************************)
DOT == 0
ChA == 1
ChL == 2
ChH == 3

SecsPerMinute == 60
SecsPerHour == 3600
SecsPerDay == 86400

DailyTag == 1000000
HourlyTag == 2000000
MinutelyTag == 3000000
SecondTag == 4000000

\* Option<T>: None is the empty set, Some(x) the singleton {x}.
None == {}
Some(x) == {x}

VARIABLES
  \* ---- rotating writer (SimpleRollingWriter) and its directory
  now,             \* Utc::now(), in seconds
  fs,              \* the directory: file name -> [size, mtime]
  base_path,       \* SimpleRollingWriter.base_path (file name)
  rotation,        \* SimpleRollingWriter.rotation
  current_period,  \* SimpleRollingWriter.current_period
  file,            \* SimpleRollingWriter.file: name of the file behind the open handle
  date_style,      \* SimpleRollingWriter.date_style
  retention_count, \* SimpleRollingWriter.retention_count
  size_limit,      \* SimpleRollingWriter.size_limit
  current_size,    \* SimpleRollingWriter.current_size
  nticks,          \* clock advances so far
  nwrites,         \* write() calls so far
  opened,          \* history: every file name the writer has had open
  trigger,         \* history: file name -> bytes of the write that last rotated into it
  lastRotation,    \* history: "none" | "ok" | "failed": what the last write()'s rotation did
  lastPruned,      \* history: modification times of the files the last rotation deleted
  faults           \* history: failed opens so far

wvars == <<now, fs, base_path, rotation, current_period, file, date_style,
           retention_count, size_limit, current_size, nticks, nwrites,
           opened, trigger, lastRotation, lastPruned, faults>>

VARIABLES
  \* ---- LoggerState (config/state.rs), as far as add/remove/dispatch/complete use it
  sinks,           \* s.sinks: handler id -> SinkConfig
  next_handler_id, \* s.next_handler_id
  file_writers,    \* s.file_writers: the ids that have a writer registered
  async_senders,   \* s.async_senders: the ids that have a Sender registered
  async_handles,   \* s.async_handles: Vec<JoinHandle>, by the id of the worker's sink
  file_writer,     \* s.file_writer.is_some()  (legacy fields)
  async_write,     \* s.async_write
  async_sender,    \* s.async_sender.is_some()
  async_handle,    \* s.async_handle.is_some()
  \* ---- threads
  workers,         \* per-sink worker threads: id -> [pc, chan, line_queue, buffer, ...]
  legacy_pc,       \* the legacy worker thread: "none" | "running" | "exited"
  out,             \* what each sink's writer has received: id -> sequence of tokens
  cpc,             \* where the caller of add()/complete() stands
  cur,             \* add(): the handler id allocated (0 before)
  cargs,           \* add(): its arguments
  handles,         \* complete(): the handles taken and not yet joined
  nlogs,           \* log calls so far; call number m dispatches the line m
  warnings,        \* duplicate-sink warnings emitted
  \* ---- history
  dispatched,      \* id -> the lines the dispatch routed to file sink id, in order
  lost,            \* <<id, line>>: routed to file sink id, which had no sender and no writer
  raced,           \* a log call ran while add() or complete() was in progress
  completeReturned \* complete() has returned and nothing was called since

rvars == <<sinks, next_handler_id, file_writers, async_senders, async_handles,
           file_writer, async_write, async_sender, async_handle, workers,
           legacy_pc, out, cpc, cur, cargs, handles, nlogs, warnings,
           dispatched, lost, raced, completeReturned>>

VARIABLES
  \* ---- what the callers of the remaining operations see
  appender,        \* make_file_appender: "none" before the call, then the writer it returned
  returned,        \* history: the ids add() has returned, in order
  recording,       \* whether this run records what the registry's calls return
  ret,             \* Some(<<operation, argument, value returned>>) of the last remove,
                   \* remove_all, enable_sink or disable_sink call of a recording
                   \* run; None once another call begins
  sarg,            \* search_log(): its sink_id (0 before)
  sres,            \* search_log(): <<>> before it returns, then <<None>> for Ok(None)
                   \* or <<Some(path)>> for Ok(Some(..)) found in the file path
  call,            \* the arguments of the function a run applies (<<>> when it applies none)
  result,          \* <<>> before that function returns, then <<what it returned>>
  lk               \* the locks and the threads at the grain of one lock operation:
                   \* who holds the registry lock and the writer's lock, where
                   \* each thread stands

xvars == <<appender, returned, recording, lk, ret, sarg, sres, call, result>>

\* a run that applies no function
NoCall == call = <<>> /\ result = <<>>

\* what a call hands back to its caller
Return(op, arg, value) == IF recording THEN Some(<<op, arg, value>>) ELSE None

vars == <<wvars, rvars, xvars>>

(***************************************************************************)
(* String helpers (str::rfind, starts_with, ends_with).                    *)
(***************************************************************************)
\* str::rfind('.'): the last index of DOT in s (1-based), 0 when there is none
RFindDot(s) ==
  LET idx == {i \in 1..Len(s) : s[i] = DOT}
  IN IF idx = {} THEN 0 ELSE CHOOSE i \in idx : \A j \in idx : j <= i

StartsWith(s, p) == Len(p) <= Len(s) /\ SubSeq(s, 1, Len(p)) = p

EndsWith(s, p) == Len(p) <= Len(s) /\ SubSeq(s, Len(s) - Len(p) + 1, Len(s)) = p

(***************************************************************************)
(* SimpleRollingWriter::period_string and the size-rotation timestamp.     *)
(***************************************************************************)
period_string(rot, t) ==
  CASE rot = "DAILY" -> <<DailyTag + (t \div SecsPerDay)>>
    [] rot = "HOURLY" -> <<HourlyTag + (t \div SecsPerHour)>>
    [] rot = "MINUTELY" -> <<MinutelyTag + (t \div SecsPerMinute)>>
    [] OTHER -> <<>>

\* Utc::now().format("%Y-%m-%d_%H-%M-%S")
timestamp_string(t) == <<SecondTag + t>>

(***************************************************************************)
(* SimpleRollingWriter::path_for_period                                    *)
(***************************************************************************)
\* a bug: the token is appended whatever the name and the style
path_for_period_appended(base, period, style) ==
  IF period = <<>> THEN base ELSE base \o <<DOT>> \o period

path_for_period(base, period, style) ==
  IF period = <<>> THEN base
  ELSE IF style = "prefix"
       THEN IF StartsWith(base, <<DOT>>)
            THEN period \o base
            ELSE period \o <<DOT>> \o base
       ELSE LET pos == RFindDot(base)
            IN IF pos # 0
               THEN SubSeq(base, 1, pos - 1) \o <<DOT>> \o period
                      \o SubSeq(base, pos, Len(base))
               ELSE base \o <<DOT>> \o period

(***************************************************************************)
(* prune_old_files                                                         *)
(***************************************************************************)
\* the name test of the retention scan
prune_matches(name, base, style) ==
  LET pos == RFindDot(base)
      stem == IF pos # 0 THEN SubSeq(base, 1, pos - 1) ELSE base
  IN IF style = "prefix"
     THEN EndsWith(name, <<DOT>> \o base)
     ELSE IF pos # 0
          THEN /\ StartsWith(name, stem \o <<DOT>>)
               /\ EndsWith(name, <<DOT>> \o SubSeq(base, pos + 1, Len(base)))
          ELSE StartsWith(name, stem \o <<DOT>>)

prune_candidates(dir, base, style, current_path) ==
  {p \in DOMAIN dir : p # current_path /\ prune_matches(p, base, style)}

\* The sets of files one call may delete: the candidates beyond `keep`, oldest
\* modification time first; the order among equal times is the directory's.
prune_deletions(dir, base, style, keep, current_path) ==
  LET cand == prune_candidates(dir, base, style, current_path)
  IN IF Cardinality(cand) > keep
     THEN {D \in SUBSET cand :
             /\ Cardinality(D) = Cardinality(cand) - keep
             /\ \A d \in D : \A k \in cand \ D : dir[d].mtime <= dir[k].mtime}
     ELSE {{}}

Remove(dir, D) == [p \in DOMAIN dir \ D |-> dir[p]]

(***************************************************************************)
(* SimpleRollingWriter::open_for_period: create(true).append(true)         *)
(***************************************************************************)
open_for_period(dir, path, t) ==
  IF path \in DOMAIN dir THEN dir
  ELSE [p \in DOMAIN dir \cup {path} |->
          IF p = path THEN [size |-> 0, mtime |-> t] ELSE dir[p]]

\* File::write through the open handle: append len bytes
file_write(dir, path, len, t) ==
  [dir EXCEPT ![path] = [size |-> @.size + len, mtime |-> t]]

(***************************************************************************)
(* SimpleRollingWriter::write and rotate_if_needed                         *)
(***************************************************************************)
\* the pre-check of write()
needs_rotation(len) ==
  \/ (rotation # "NEVER" /\ period_string(rotation, now) # current_period)
  \/ \E limit \in size_limit : current_size + len > limit

needs_time_rotation == period_string(rotation, now) # current_period

needs_size_rotation(len) == \E limit \in size_limit : current_size + len >= limit

actual_period(len) ==
  IF needs_size_rotation(len) /\ ~needs_time_rotation
  THEN timestamp_string(now)
  ELSE period_string(rotation, now)

\* what every write() leaves alone, and the count of calls
WriteFrame ==
  /\ nwrites < MaxWrites
  /\ nwrites' = nwrites + 1
  /\ UNCHANGED <<now, base_path, rotation, date_style, retention_count, size_limit, nticks>>
  /\ UNCHANGED rvars
  /\ UNCHANGED xvars

\* write(buf) when no rotation is attempted
WriteInPlace ==
  \E len \in 1..MaxWriteLen :
    /\ ~needs_rotation(len)
    /\ WriteFrame
    /\ fs' = file_write(fs, file, len, now)
    /\ current_size' = current_size + len
    /\ lastRotation' = "none"
    /\ lastPruned' = {}
    /\ UNCHANGED <<current_period, file, opened, trigger, faults>>

\* write(buf) when rotate_if_needed opens the new segment (and prunes)
WriteRotate ==
  \E len \in 1..MaxWriteLen :
    /\ needs_rotation(len)
    /\ needs_time_rotation \/ needs_size_rotation(len)
    /\ WriteFrame
    /\ LET period == actual_period(len)
           path == path_for_period(base_path, period, date_style)
           fs1 == open_for_period(fs, path, now)
       IN /\ current_period' = period
          /\ file' = path
          /\ \E D \in (IF retention_count = None
                       THEN {{}}
                       ELSE UNION {prune_deletions(fs1, base_path, date_style, keep, path) :
                                     keep \in retention_count}) :
               /\ fs' = file_write(Remove(fs1, D), path, len, now)
               /\ lastPruned' = {fs1[d].mtime : d \in D}
          /\ current_size' = 0 + len
          /\ opened' = opened \cup {path}
          /\ trigger' = [p \in DOMAIN trigger \cup {path} |->
                           IF p = path THEN len ELSE trigger[p]]
          /\ lastRotation' = "ok"
          /\ UNCHANGED faults

\* write(buf) when rotate_if_needed fails to open the new segment (create_dir_all
\* or open returns an error): write() drops the error and the bytes go to the
\* handle that is still open
WriteRotateFailed ==
  \E len \in 1..MaxWriteLen :
    /\ needs_rotation(len)
    /\ needs_time_rotation \/ needs_size_rotation(len)
    /\ faults < MaxFaults
    /\ WriteFrame
    /\ current_period' = actual_period(len)
    /\ fs' = file_write(fs, file, len, now)
    /\ current_size' = current_size + len
    /\ lastRotation' = "failed"
    /\ lastPruned' = {}
    /\ faults' = faults + 1
    /\ UNCHANGED <<file, opened, trigger>>

\* the clock advances
Tick ==
  /\ nticks < MaxTicks
  /\ nticks' = nticks + 1
  /\ \E d \in {1, SecsPerMinute, SecsPerHour, SecsPerDay} : now' = now + d
  /\ UNCHANGED <<fs, base_path, rotation, current_period, file, date_style,
                 retention_count, size_limit, current_size, nwrites, opened,
                 trigger, lastRotation, lastPruned, faults>>
  /\ UNCHANGED rvars
  /\ UNCHANGED xvars

(***************************************************************************)
(* SimpleRollingWriter::new, for each configuration make_file_appender     *)
(* can hand it, in an empty directory at time 0.                           *)
(***************************************************************************)
BaseNames == {<<ChA, DOT, ChL>>, <<ChA>>, <<DOT, ChH>>}
DateStyles == {"before_ext", "prefix"}
Rotations == {"NEVER", "DAILY", "HOURLY", "MINUTELY"}
SizeLimits == {None, Some(1)}
Retentions == {None, Some(1)}

\* SimpleRollingWriter::new in the directory dir
WriterInitIn(dir) ==
  /\ now = 0
  /\ nticks = 0
  /\ nwrites = 0
  /\ base_path \in BaseNames
  /\ date_style \in DateStyles
  /\ rotation \in Rotations
  /\ size_limit \in SizeLimits
  /\ retention_count \in Retentions
  /\ current_period = period_string(rotation, now)
  /\ file = path_for_period(base_path, current_period, date_style)
  /\ fs = open_for_period(dir, file, now)
  /\ current_size = fs[file].size
  /\ opened = {file}
  /\ trigger = [p \in {file} |-> 0]
  /\ lastRotation = "none"
  /\ lastPruned = {}
  /\ faults = 0
  /\ appender = "rolling"

\* in an empty directory
WriterInit == WriterInitIn(<<>>)

\* a directory with the files of others: 'a.h.l' and 'h.a.l', one byte each,
\* older than anything the writer creates
OtherFiles == {<<ChA, DOT, ChH, DOT, ChL>>, <<ChH, DOT, ChA, DOT, ChL>>}

SharedDir == [p \in OtherFiles |-> [size |-> 1, mtime |-> -1]]

(***************************************************************************)
(* make_file_appender: SimpleRollingWriter::new, else a plain append file  *)
(* on the literal path, else File::create("fallback.log").expect(..).      *)
(* Each of the three opens succeeds or fails as the filesystem decides.    *)
(***************************************************************************)
ChF == 4

\* "fallback.log"
FallbackLog == <<ChF, DOT, ChL>>

\* File::create: create or truncate
file_create(dir, path, t) ==
  [p \in DOMAIN dir \cup {path} |->
     IF p = path THEN [size |-> 0, mtime |-> t] ELSE dir[p]]

\* before the call: the arguments, an empty directory, no handle
AppenderInit ==
  /\ now = 0
  /\ nticks = 0
  /\ nwrites = 0
  /\ base_path \in BaseNames
  /\ date_style \in DateStyles
  /\ rotation \in Rotations
  /\ size_limit \in SizeLimits
  /\ retention_count \in Retentions
  /\ current_period = <<>>
  /\ file = <<>>
  /\ fs = <<>>
  /\ current_size = 0
  /\ opened = {}
  /\ trigger = <<>>
  /\ lastRotation = "none"
  /\ lastPruned = {}
  /\ faults = 0
  /\ appender = "none"

MakeFileAppender ==
  /\ appender = "none"
  /\ \E new_ok, open_ok, create_ok \in BOOLEAN :
       LET period == period_string(rotation, now)
           path == path_for_period(base_path, period, date_style)
           target == IF new_ok THEN path ELSE IF open_ok THEN base_path ELSE FallbackLog
       IN /\ appender' = IF new_ok THEN "rolling"
                         ELSE IF open_ok THEN "plain"
                         ELSE IF create_ok THEN "fallback"
                         ELSE "panicked"
          /\ faults' = IF new_ok THEN 0 ELSE IF open_ok THEN 1 ELSE IF create_ok THEN 2 ELSE 3
          /\ IF new_ok \/ open_ok \/ create_ok
             THEN /\ fs' = IF new_ok \/ open_ok
                           THEN open_for_period(fs, target, now)
                           ELSE file_create(fs, target, now)
                  /\ file' = target
                  /\ opened' = {target}
                  /\ trigger' = [p \in {target} |-> 0]
             ELSE UNCHANGED <<fs, file, opened, trigger>>
          /\ current_period' = IF new_ok THEN period ELSE current_period
          /\ current_size' = 0
  /\ UNCHANGED <<now, base_path, rotation, date_style, retention_count, size_limit,
                 nticks, nwrites, lastRotation, lastPruned>>
  /\ UNCHANGED rvars
  /\ UNCHANGED <<returned, recording, lk, call, result, ret, sarg, sres>>

(***************************************************************************)
(* The async buffered dispatcher (backend/async.rs).                       *)
(*                                                                         *)
(* A writer's content is a sequence of tokens: the line m > 0, or NL, the  *)
(* newline.  The line m is LineLen(m) bytes long.                          *)
(***************************************************************************)
NL == 0

LineLen(m) == m

Lines(tokens) == SelectSeq(tokens, LAMBDA t : t # NL)

RECURSIVE TokensLen(_)
TokensLen(tokens) ==
  IF tokens = <<>> THEN 0
  ELSE (IF Head(tokens) = NL THEN 1 ELSE LineLen(Head(tokens))) + TokensLen(Tail(tokens))

\* flush_buffer, a bug: only the first queued line is moved to the buffer
RECURSIVE flush_buffer_first_only(_, _)
flush_buffer_first_only(buffer, line_queue) ==
  IF line_queue = <<>> THEN buffer
  ELSE (IF buffer # <<>> THEN buffer \o <<NL>> ELSE buffer) \o <<Head(line_queue)>>

\* flush_buffer: the string it hands to write!: the buffer, then every queued
\* line, a newline between two of them
RECURSIVE flush_buffer(_, _)
flush_buffer(buffer, line_queue) ==
  IF line_queue = <<>> THEN buffer
  ELSE flush_buffer((IF buffer # <<>> THEN buffer \o <<NL>> ELSE buffer)
                      \o <<Head(line_queue)>>,
                    Tail(line_queue))

\* the worker record start_async_writer_for_sink's thread starts with
NewWorker(buffer_size, max_buffered_lines) ==
  [pc |-> "recv", chan |-> <<>>, line_queue |-> <<>>, buffer |-> <<>>,
   buffer_size |-> buffer_size, max_buffered_lines |-> max_buffered_lines,
   sent |-> <<>>, wrote |-> <<>>]

\* the worker of sink id flushes: its record and the writer's content afterwards
Flushed(w) ==
  [w EXCEPT !.line_queue = <<>>, !.buffer = <<>>,
            !.wrote = @ \o Lines(flush_buffer(w.buffer, w.line_queue))]

FlushedOut(w, content) == content \o flush_buffer(w.buffer, w.line_queue)

\* what no step of a worker changes
WorkerFrame ==
  /\ UNCHANGED wvars
  /\ UNCHANGED xvars
  /\ UNCHANGED <<sinks, next_handler_id, file_writers, async_senders, async_handles,
                 file_writer, async_write, async_sender, async_handle, legacy_pc,
                 cpc, cur, cargs, handles, nlogs, warnings, dispatched, lost,
                 raced, completeReturned>>

\* rx.recv_timeout returns Ok(line): flush first if the line would fill the
\* buffer, then queue the line
WorkerRecv(id) ==
  /\ id \in DOMAIN workers
  /\ workers[id].pc = "recv"
  /\ workers[id].chan # <<>>
  /\ LET w == workers[id]
         line == Head(w.chan)
         first == TokensLen(w.buffer) + LineLen(line) + 1 >= w.buffer_size
         w1 == IF first THEN Flushed(w) ELSE w
         w2 == [w1 EXCEPT !.chan = Tail(@), !.line_queue = Append(@, line),
                          !.pc = "queued"]
     IN /\ workers' = [workers EXCEPT ![id] = w2]
        /\ out' = [out EXCEPT ![id] = IF first THEN FlushedOut(w, @) ELSE @]
  /\ WorkerFrame

\* after queueing, a bug: flush only once the queue is beyond max_buffered_lines
WorkerMaxLinesBeyond(id) ==
  /\ id \in DOMAIN workers
  /\ workers[id].pc = "queued"
  /\ LET w == workers[id]
         full == Len(w.line_queue) > w.max_buffered_lines
     IN /\ workers' = [workers EXCEPT
                         ![id] = [(IF full THEN Flushed(w) ELSE w) EXCEPT !.pc = "recv"]]
        /\ out' = [out EXCEPT ![id] = IF full THEN FlushedOut(w, @) ELSE @]
  /\ WorkerFrame

\* after queueing: flush if the queue has reached max_buffered_lines
WorkerMaxLines(id) ==
  /\ id \in DOMAIN workers
  /\ workers[id].pc = "queued"
  /\ LET w == workers[id]
         full == Len(w.line_queue) >= w.max_buffered_lines
     IN /\ workers' = [workers EXCEPT
                         ![id] = [(IF full THEN Flushed(w) ELSE w) EXCEPT !.pc = "recv"]]
        /\ out' = [out EXCEPT ![id] = IF full THEN FlushedOut(w, @) ELSE @]
  /\ WorkerFrame

\* the Timeout arm, a bug: nothing is flushed
WorkerTimeoutNoFlush(id) ==
  /\ id \in DOMAIN workers
  /\ workers[id].pc = "recv"
  /\ workers[id].chan = <<>>
  /\ id \in async_senders
  /\ workers[id].line_queue # <<>>
  /\ UNCHANGED <<workers, out>>
  /\ WorkerFrame

\* rx.recv_timeout returns Timeout (the channel is empty and a Sender lives):
\* flush what is queued.  With nothing queued the step changes nothing.
WorkerTimeout(id) ==
  /\ id \in DOMAIN workers
  /\ workers[id].pc = "recv"
  /\ workers[id].chan = <<>>
  /\ id \in async_senders
  /\ workers[id].line_queue # <<>>
  /\ workers' = [workers EXCEPT ![id] = Flushed(workers[id])]
  /\ out' = [out EXCEPT ![id] = FlushedOut(workers[id], @)]
  /\ WorkerFrame

\* the Disconnected arm, a bug: exit without the final flush
WorkerDisconnectedNoFlush(id) ==
  /\ id \in DOMAIN workers
  /\ workers[id].pc = "recv"
  /\ workers[id].chan = <<>>
  /\ id \notin async_senders
  /\ workers' = [workers EXCEPT ![id].pc = "exited"]
  /\ out' = out
  /\ WorkerFrame

\* rx.recv_timeout returns Disconnected (the channel is empty and its Sender
\* was dropped): flush what remains and leave the loop
WorkerDisconnected(id) ==
  /\ id \in DOMAIN workers
  /\ workers[id].pc = "recv"
  /\ workers[id].chan = <<>>
  /\ id \notin async_senders
  /\ LET w == workers[id]
         rest == w.line_queue # <<>> \/ w.buffer # <<>>
     IN /\ workers' = [workers EXCEPT
                         ![id] = [(IF rest THEN Flushed(w) ELSE w) EXCEPT !.pc = "exited"]]
        /\ out' = [out EXCEPT ![id] = IF rest THEN FlushedOut(w, @) ELSE @]
  /\ WorkerFrame

\* the legacy worker (start_async_writer_if_needed): nothing sends on its
\* channel; it leaves its loop when s.async_sender is dropped
LegacyDisconnected ==
  /\ legacy_pc = "running"
  /\ ~async_sender
  /\ legacy_pc' = "exited"
  /\ UNCHANGED wvars
  /\ UNCHANGED xvars
  /\ UNCHANGED <<sinks, next_handler_id, file_writers, async_senders, async_handles,
                 file_writer, async_write, async_sender, async_handle, workers, out,
                 cpc, cur, cargs, handles, nlogs, warnings, dispatched, lost,
                 raced, completeReturned>>

(***************************************************************************)
(* PyLogger::add (logger.rs): one step per critical section of with_state. *)
(***************************************************************************)
Destinations == {"console", "app.log"}
BufferSizes == {3, 8192}
MaxBufferedLines == {2}

NoArgs == [sink |-> "console", async_write |-> FALSE, buffer_size |-> 8192,
           max_buffered_lines |-> 1000]

\* the arguments of add(): the destination, async_write and, for an async file
\* sink, the thresholds of its worker (8192 and 1000 are the defaults)
AddArgs ==
  {[sink |-> "console", async_write |-> TRUE, buffer_size |-> 8192,
    max_buffered_lines |-> 1000],
   [sink |-> "app.log", async_write |-> FALSE, buffer_size |-> 8192,
    max_buffered_lines |-> 1000]}
  \cup [sink : {"app.log"}, async_write : {TRUE}, buffer_size : BufferSizes,
        max_buffered_lines : MaxBufferedLines]

\* what no step of the caller of add()/complete() changes
CallerFrame == UNCHANGED <<wvars, nlogs, lost, raced, appender, recording, lk, call, result, sarg, sres>>

\* add(), a bug: two console sinks do not count as duplicates
AddCheckDuplicateFilesOnly ==
  /\ cpc = "idle"
  /\ next_handler_id <= MaxSinks
  /\ \E a \in AddArgs :
       /\ cargs' = a
       /\ warnings' = IF \E id \in DOMAIN sinks :
                            sinks[id].path = a.sink /\ a.sink # "console"
                      THEN warnings + 1 ELSE warnings
  /\ cpc' = "add_insert"
  /\ completeReturned' = FALSE
  /\ UNCHANGED <<sinks, next_handler_id, file_writers, async_senders, async_handles,
                 file_writer, async_write, async_sender, async_handle, workers,
                 legacy_pc, out, cur, handles, dispatched>>
  /\ ret' = None
  /\ UNCHANGED returned
  /\ CallerFrame

\* add(), its arguments drawn from Args: the duplicate check and its warning
AddCheckDuplicateOf(Args) ==
  /\ cpc = "idle"
  /\ next_handler_id <= MaxSinks
  /\ \E a \in Args :
       /\ cargs' = a
       /\ warnings' = IF \E id \in DOMAIN sinks : sinks[id].path = a.sink
                      THEN warnings + 1 ELSE warnings
  /\ cpc' = "add_insert"
  /\ completeReturned' = FALSE
  /\ UNCHANGED <<sinks, next_handler_id, file_writers, async_senders, async_handles,
                 file_writer, async_write, async_sender, async_handle, workers,
                 legacy_pc, out, cur, handles, dispatched>>
  /\ ret' = None
  /\ UNCHANGED returned
  /\ CallerFrame

\* add(): the duplicate check and its warning
AddCheckDuplicate == AddCheckDuplicateOf(AddArgs)

\* add(), a bug: the id is the smallest one that no registered sink holds
AddInsertSinkReusingIds ==
  /\ cpc = "add_insert"
  /\ LET id == CHOOSE i \in 1..(MaxSinks + 1) :
                  i \notin DOMAIN sinks /\ \A j \in 1..(i - 1) : j \in DOMAIN sinks
     IN /\ cur' = id
        /\ next_handler_id' = next_handler_id + 1
        /\ sinks' = [i \in DOMAIN sinks \cup {id} |->
                       IF i = id
                       THEN [path |-> cargs.sink, async_write |-> cargs.async_write,
                             enabled |-> TRUE]
                       ELSE sinks[i]]
        /\ dispatched' = [i \in DOMAIN dispatched \cup {id} |->
                            IF i = id THEN <<>> ELSE dispatched[i]]
  /\ cpc' = IF cargs.sink = "console" THEN "add_legacy_start" ELSE "add_writer"
  /\ UNCHANGED <<file_writers, async_senders, async_handles, file_writer, async_write,
                 async_sender, async_handle, workers, legacy_pc, out, cargs, handles,
                 warnings, completeReturned>>
  /\ UNCHANGED <<returned, ret>>
  /\ CallerFrame

\* add(): allocate the id and insert the SinkConfig
AddInsertSink ==
  /\ cpc = "add_insert"
  /\ LET id == next_handler_id
     IN /\ cur' = id
        /\ next_handler_id' = next_handler_id + 1
        /\ sinks' = [i \in DOMAIN sinks \cup {id} |->
                       IF i = id
                       THEN [path |-> cargs.sink, async_write |-> cargs.async_write,
                             enabled |-> TRUE]
                       ELSE sinks[i]]
        /\ dispatched' = [i \in DOMAIN dispatched \cup {id} |->
                            IF i = id THEN <<>> ELSE dispatched[i]]
  /\ cpc' = IF cargs.sink = "console" THEN "add_legacy_start" ELSE "add_writer"
  /\ UNCHANGED <<file_writers, async_senders, async_handles, file_writer, async_write,
                 async_sender, async_handle, workers, legacy_pc, out, cargs, handles,
                 warnings, completeReturned>>
  /\ UNCHANGED <<returned, ret>>
  /\ CallerFrame

\* add(): make_file_appender, then register the writer
AddFileWriter ==
  /\ cpc = "add_writer"
  /\ file_writers' = file_writers \cup {cur}
  /\ out' = [i \in DOMAIN out \cup {cur} |-> IF i = cur THEN <<>> ELSE out[i]]
  /\ cpc' = IF cargs.async_write THEN "add_async" ELSE "add_legacy"
  /\ UNCHANGED <<sinks, next_handler_id, async_senders, async_handles, file_writer,
                 async_write, async_sender, async_handle, workers, legacy_pc, cur,
                 cargs, handles, warnings, dispatched, completeReturned>>
  /\ UNCHANGED <<returned, ret>>
  /\ CallerFrame

\* add(): start_async_writer_for_sink
AddStartAsyncWriter ==
  /\ cpc = "add_async"
  /\ IF cur \notin async_senders
     THEN /\ workers' = [i \in DOMAIN workers \cup {cur} |->
                           IF i = cur
                           THEN NewWorker(cargs.buffer_size, cargs.max_buffered_lines)
                           ELSE workers[i]]
          /\ async_senders' = async_senders \cup {cur}
          /\ async_handles' = Append(async_handles, cur)
     ELSE UNCHANGED <<workers, async_senders, async_handles>>
  /\ cpc' = "add_legacy"
  /\ UNCHANGED <<sinks, next_handler_id, file_writers, file_writer, async_write,
                 async_sender, async_handle, legacy_pc, out, cur, cargs, handles,
                 warnings, dispatched, completeReturned>>
  /\ UNCHANGED <<returned, ret>>
  /\ CallerFrame

\* add(): the backward-compatibility fields of a file sink
AddLegacyFields ==
  /\ cpc = "add_legacy"
  /\ file_writer' = TRUE
  /\ async_write' = cargs.async_write
  /\ cpc' = "add_legacy_start"
  /\ UNCHANGED <<sinks, next_handler_id, file_writers, async_senders, async_handles,
                 async_sender, async_handle, workers, legacy_pc, out, cur, cargs,
                 handles, warnings, dispatched, completeReturned>>
  /\ UNCHANGED <<returned, ret>>
  /\ CallerFrame

\* add(): start_async_writer_if_needed, then return the id
AddStartLegacyWriter ==
  /\ cpc = "add_legacy_start"
  /\ IF async_write /\ ~async_sender /\ file_writer
     THEN /\ async_sender' = TRUE
          /\ async_handle' = TRUE
          /\ legacy_pc' = "running"
     ELSE UNCHANGED <<async_sender, async_handle, legacy_pc>>
  /\ cpc' = "idle"
  /\ cur' = 0
  /\ cargs' = NoArgs
  /\ UNCHANGED <<sinks, next_handler_id, file_writers, async_senders, async_handles,
                 file_writer, async_write, workers, out, handles, warnings,
                 dispatched, completeReturned>>
  /\ returned' = Append(returned, cur)
  /\ UNCHANGED ret
  /\ CallerFrame

(***************************************************************************)
(* PyLogger::remove, remove_all, enable_sink, disable_sink (logger.rs)     *)
(***************************************************************************)
HandlerIds == 1..(MaxSinks + 1)

Restrict(f, S) == [i \in DOMAIN f \cap S |-> f[i]]

RegistryOpFrame ==
  /\ completeReturned' = FALSE
  /\ UNCHANGED <<next_handler_id, async_handles, file_writer, async_write,
                 async_sender, async_handle, workers, legacy_pc, out, cpc, cur,
                 cargs, handles, warnings, dispatched>>
  /\ UNCHANGED returned
  /\ CallerFrame

\* remove(), a bug: it reports whether the id was registered
RemoveSinkReportingFound ==
  /\ cpc = "idle"
  /\ \E handler_id \in HandlerIds :
       /\ IF handler_id \in DOMAIN sinks
          THEN /\ sinks' = Restrict(sinks, DOMAIN sinks \ {handler_id})
               /\ file_writers' = file_writers \ {handler_id}
               /\ async_senders' = async_senders \ {handler_id}
          ELSE UNCHANGED <<sinks, file_writers, async_senders>>
       /\ ret' = Return("remove", handler_id, handler_id \in DOMAIN sinks)
  /\ RegistryOpFrame

RemoveSink ==
  /\ cpc = "idle"
  /\ \E handler_id \in HandlerIds :
       /\ IF handler_id \in DOMAIN sinks
          THEN /\ sinks' = Restrict(sinks, DOMAIN sinks \ {handler_id})
               /\ file_writers' = file_writers \ {handler_id}
               /\ async_senders' = async_senders \ {handler_id}
          ELSE UNCHANGED <<sinks, file_writers, async_senders>>
       /\ ret' = Return("remove", handler_id, TRUE)
  /\ RegistryOpFrame

RemoveAll ==
  /\ cpc = "idle"
  /\ sinks' = <<>>
  /\ file_writers' = {}
  /\ async_senders' = {}
  /\ ret' = Return("remove_all", 0, Cardinality(DOMAIN sinks))
  /\ RegistryOpFrame

\* PyLogger::reset: clear the sinks, their writers and their senders; its
\* configure() call (auto_sink = false) registers nothing
Reset ==
  /\ cpc = "idle"
  /\ sinks' = <<>>
  /\ file_writers' = {}
  /\ async_senders' = {}
  /\ ret' = None
  /\ RegistryOpFrame

\* the orders in which a hash map may hand out the keys S
KeyOrders(S) ==
  {order \in [1..Cardinality(S) -> S] : \A i, j \in DOMAIN order : order[i] = order[j] => i = j}

\* list_sinks(): s.sinks.keys() collected, in the iteration order of the AHashMap
ListSinks ==
  /\ cpc = "idle"
  /\ \E ids \in KeyOrders(DOMAIN sinks) : ret' = Return("list_sinks", 0, ids)
  /\ UNCHANGED <<sinks, file_writers, async_senders>>
  /\ RegistryOpFrame

EnableSink ==
  /\ cpc = "idle"
  /\ \E sink_id \in HandlerIds :
       /\ IF sink_id \in DOMAIN sinks
          THEN sinks' = [sinks EXCEPT ![sink_id].enabled = TRUE]
          ELSE UNCHANGED sinks
       /\ ret' = Return("enable_sink", sink_id, sink_id \in DOMAIN sinks)
  /\ UNCHANGED <<file_writers, async_senders>>
  /\ RegistryOpFrame

\* disable_sink(), a bug: it flips the flag
DisableSinkToggling ==
  /\ cpc = "idle"
  /\ \E sink_id \in HandlerIds :
       /\ IF sink_id \in DOMAIN sinks
          THEN sinks' = [sinks EXCEPT ![sink_id].enabled = ~@]
          ELSE UNCHANGED sinks
       /\ ret' = Return("disable_sink", sink_id, sink_id \in DOMAIN sinks)
  /\ UNCHANGED <<file_writers, async_senders>>
  /\ RegistryOpFrame

DisableSink ==
  /\ cpc = "idle"
  /\ \E sink_id \in HandlerIds :
       /\ IF sink_id \in DOMAIN sinks
          THEN sinks' = [sinks EXCEPT ![sink_id].enabled = FALSE]
          ELSE UNCHANGED sinks
       /\ ret' = Return("disable_sink", sink_id, sink_id \in DOMAIN sinks)
  /\ UNCHANGED <<file_writers, async_senders>>
  /\ RegistryOpFrame

(***************************************************************************)
(* complete (backend/async.rs)                                             *)
(***************************************************************************)
\* with_state: clear the senders, take the handles
CompleteTakeHandles ==
  /\ cpc = "idle"
  /\ async_senders' = {}
  /\ handles' = async_handles
  /\ async_handles' = <<>>
  /\ cpc' = "join"
  /\ completeReturned' = FALSE
  /\ UNCHANGED <<sinks, next_handler_id, file_writers, file_writer, async_write,
                 async_sender, async_handle, workers, legacy_pc, out, cur, cargs,
                 warnings, dispatched>>
  /\ ret' = None
  /\ UNCHANGED returned
  /\ CallerFrame

\* handle.join(), a bug: the handle is dropped without waiting for the thread
CompleteJoinNoWait ==
  /\ cpc = "join"
  /\ handles # <<>>
  /\ handles' = Tail(handles)
  /\ UNCHANGED <<sinks, next_handler_id, file_writers, async_senders, async_handles,
                 file_writer, async_write, async_sender, async_handle, workers,
                 legacy_pc, out, cpc, cur, cargs, warnings, dispatched,
                 completeReturned>>
  /\ UNCHANGED <<returned, ret>>
  /\ CallerFrame

\* handle.join() of the next handle taken: returns once that worker has exited
CompleteJoin ==
  /\ cpc = "join"
  /\ handles # <<>>
  /\ workers[Head(handles)].pc = "exited"
  /\ handles' = Tail(handles)
  /\ UNCHANGED <<sinks, next_handler_id, file_writers, async_senders, async_handles,
                 file_writer, async_write, async_sender, async_handle, workers,
                 legacy_pc, out, cpc, cur, cargs, warnings, dispatched,
                 completeReturned>>
  /\ UNCHANGED <<returned, ret>>
  /\ CallerFrame

\* with_state: take the legacy sender and handle; return if there is no handle
CompleteTakeLegacy ==
  /\ cpc = "join"
  /\ handles = <<>>
  /\ async_sender' = FALSE
  /\ async_handle' = FALSE
  /\ cpc' = IF async_handle THEN "join_legacy" ELSE "idle"
  /\ completeReturned' = ~async_handle
  /\ UNCHANGED <<sinks, next_handler_id, file_writers, async_senders, async_handles,
                 file_writer, async_write, workers, legacy_pc, out, cur, cargs,
                 handles, warnings, dispatched>>
  /\ UNCHANGED <<returned, ret>>
  /\ CallerFrame

\* join of the legacy handle, then return
CompleteJoinLegacy ==
  /\ cpc = "join_legacy"
  /\ legacy_pc = "exited"
  /\ cpc' = "idle"
  /\ completeReturned' = TRUE
  /\ UNCHANGED <<sinks, next_handler_id, file_writers, async_senders, async_handles,
                 file_writer, async_write, async_sender, async_handle, workers,
                 legacy_pc, out, cur, cargs, handles, warnings, dispatched>>
  /\ UNCHANGED <<returned, ret>>
  /\ CallerFrame

(***************************************************************************)
(* search_file (backend/search.rs) on the lines read from the file.  A     *)
(* string is a sequence of characters, a character a one-letter string.    *)
(***************************************************************************)
\* char::to_lowercase and to_uppercase on the letters used
to_lowercase_char(c) ==
  CASE c = "E" -> "e" [] c = "X" -> "x" [] c = "K" -> "k" [] c = "B" -> "b"
    [] c = "T" -> "t" [] c = "M" -> "m" [] c = "G" -> "g" [] OTHER -> c

to_uppercase_char(c) ==
  CASE c = "e" -> "E" [] c = "x" -> "X" [] c = "k" -> "K" [] c = "b" -> "B"
    [] c = "t" -> "T" [] c = "m" -> "M" [] c = "g" -> "G" [] OTHER -> c

to_lowercase(str) == [i \in 1..Len(str) |-> to_lowercase_char(str[i])]

to_uppercase(str) == [i \in 1..Len(str) |-> to_uppercase_char(str[i])]

\* str::find: the 1-based places where pat starts in str
find_all(str, pat) ==
  {i \in 1..(Len(str) - Len(pat) + 1) : SubSeq(str, i, i + Len(pat) - 1) = pat}

\* str::contains
contains(str, pat) == find_all(str, pat) # {}

Min(S) == CHOOSE x \in S : \A y \in S : x <= y

\* regex::Regex::new on the patterns used: letters, "." (any character) and
\* "(", which opens a group that nothing closes: an error
regex_new_ok(pattern) == \A i \in 1..Len(pattern) : pattern[i] # "("

\* the places where the regex matches in str
regex_find_all(re, str) ==
  {i \in 1..(Len(str) - Len(re) + 1) :
     \A k \in 1..Len(re) : re[k] = "." \/ re[k] = str[i + k - 1]}

\* the match test, a bug: the literal search never folds the case
line_matches_exact(line, pattern, o) ==
  IF o.use_regex THEN regex_find_all(pattern, line) # {}
  ELSE contains(line, pattern)

\* the match test of one line
line_matches(line, pattern, o) ==
  IF o.use_regex THEN regex_find_all(pattern, line) # {}
  ELSE IF o.case_sensitive THEN contains(line, pattern)
  ELSE contains(to_lowercase(line), to_lowercase(pattern))

\* matched_text of an included line
matched_text(line, pattern, o) ==
  LET at(S) == IF S = {} THEN pattern
               ELSE SubSeq(line, Min(S), Min(S) + Len(pattern) - 1)
  IN IF o.use_regex THEN at(regex_find_all(pattern, line))
     ELSE IF o.case_sensitive THEN at(find_all(line, pattern))
     ELSE at(find_all(to_lowercase(line), to_lowercase(pattern)))

\* the loop over all_lines from index idx (0-based) on, results so far given
RECURSIVE search_loop(_, _, _, _, _)
search_loop(all_lines, pattern, o, idx, results) ==
  IF idx >= Len(all_lines) THEN results
  ELSE
    LET line_num == idx + 1
        line == all_lines[line_num]
        start == IF o.start_line = None THEN 1 ELSE CHOOSE n \in o.start_line : TRUE
        end == IF o.end_line = None THEN Len(all_lines)
               ELSE CHOOSE n \in o.end_line : TRUE
        skipped ==
          \/ line_num < start \/ line_num > end
          \/ \E level \in o.level_filter :
               ~contains(to_uppercase(line), to_uppercase(level))
        matches == line_matches(line, pattern, o)
        should_include == IF o.invert_match THEN ~matches ELSE matches
        start_idx == IF o.context_before = None THEN idx
                     ELSE LET n == CHOOSE n \in o.context_before : TRUE
                          IN IF n > idx THEN 0 ELSE idx - n
        end_idx == IF o.context_after = None THEN idx + 1
                   ELSE LET n == CHOOSE n \in o.context_after : TRUE
                        IN IF idx + 1 + n < Len(all_lines) THEN idx + 1 + n
                           ELSE Len(all_lines)
        pushed == Append(results,
                         [line_number |-> line_num,
                          content |-> line,
                          matched_text |-> matched_text(line, pattern, o),
                          context_before |-> SubSeq(all_lines, start_idx + 1, idx),
                          context_after |-> SubSeq(all_lines, idx + 2, end_idx)])
    IN IF skipped \/ ~should_include
       THEN search_loop(all_lines, pattern, o, idx + 1, results)
       ELSE IF o.first_only \/ (\E max \in o.max_results : Len(pushed) >= max)
       THEN pushed
       ELSE search_loop(all_lines, pattern, o, idx + 1, pushed)

\* search_file once the file is read: a regex that does not compile gives Ok
\* of no results
search_file(all_lines, pattern, o) ==
  IF o.use_regex /\ ~regex_new_ok(pattern) THEN <<>>
  ELSE search_loop(all_lines, pattern, o, 0, <<>>)

\* the files, patterns and options search_file is applied to
MaxFileLines == 3

SearchLines == {<<"e">>, <<"E", "x">>, <<"x">>}

SearchFiles == UNION {[1..n -> SearchLines] : n \in 0..MaxFileLines}

SearchPatterns == {<<>>, <<"e">>, <<"E">>, <<".", "x">>, <<"(">>}

SearchOptions ==
  [case_sensitive : BOOLEAN, first_only : BOOLEAN, use_regex : BOOLEAN,
   start_line : {None, Some(2)}, end_line : {None, Some(2)},
   max_results : {None, Some(0), Some(1), Some(2)},
   context_before : {None}, context_after : {None},
   level_filter : {None, Some(<<"x">>)}, invert_match : BOOLEAN]

SearchCalls ==
  [fn : {"search_file"}, all_lines : SearchFiles, pattern : SearchPatterns,
   o : SearchOptions]

\* search_file returns
SearchFileReturns ==
  /\ call.fn = "search_file"
  /\ result = <<>>
  /\ result' = <<search_file(call.all_lines, call.pattern, call.o)>>
  /\ UNCHANGED <<wvars, rvars, appender, returned, recording, lk, ret, sarg, sres, call>>

(***************************************************************************)
(* The size strings: parse_size_str (utils/error.rs), which validates the  *)
(* arguments of add(), and the two parse_size_limit (backend/file.rs, which *)
(* make_file_appender uses, and backend/rotation.rs).  A size is the pair  *)
(* <<n, k>> for n * 1024^k bytes.                                          *)
(***************************************************************************)
DigitChars == <<"0", "1", "2", "3", "4", "5", "6", "7", "8", "9">>

is_ascii_digit(c) == \E i \in 1..Len(DigitChars) : DigitChars[i] = c

DigitValue(c) == (CHOOSE i \in 1..Len(DigitChars) : DigitChars[i] = c) - 1

\* str::trim on the one whitespace character used
RECURSIVE trim(_)
trim(str) ==
  IF str # <<>> /\ Head(str) = " " THEN trim(Tail(str))
  ELSE IF str # <<>> /\ str[Len(str)] = " " THEN trim(SubSeq(str, 1, Len(str) - 1))
  ELSE str

\* str::trim_end_matches: pat removed from the end as often as it is there
RECURSIVE trim_end_matches(_, _)
trim_end_matches(str, pat) ==
  IF EndsWith(str, pat)
  THEN trim_end_matches(SubSeq(str, 1, Len(str) - Len(pat)), pat)
  ELSE str

RECURSIVE DigitsValue(_)
DigitsValue(digits) ==
  IF digits = <<>> THEN 0
  ELSE 10 * DigitsValue(SubSeq(digits, 1, Len(digits) - 1))
       + DigitValue(digits[Len(digits)])

\* str::parse::<u64>: an optional "+", then one digit or more (the strings
\* used are too short to leave u64)
parse_u64(str) ==
  LET digits == IF str # <<>> /\ Head(str) = "+" THEN Tail(str) ELSE str
  IN IF digits # <<>> /\ \A i \in 1..Len(digits) : is_ascii_digit(digits[i])
     THEN Some(DigitsValue(digits)) ELSE None

\* utils/error.rs parse_size_str
parse_size_str(str) ==
  LET s0 == to_uppercase(trim(str))
      cut(unit) == trim(trim_end_matches(s0, unit))
  IN IF EndsWith(s0, <<"K", "B">>) THEN {<<n, 1>> : n \in parse_u64(cut(<<"K", "B">>))}
     ELSE IF EndsWith(s0, <<"M", "B">>) THEN {<<n, 2>> : n \in parse_u64(cut(<<"M", "B">>))}
     ELSE IF EndsWith(s0, <<"G", "B">>) THEN {<<n, 3>> : n \in parse_u64(cut(<<"G", "B">>))}
     ELSE IF EndsWith(s0, <<"B">>) THEN {<<n, 0>> : n \in parse_u64(cut(<<"B">>))}
     ELSE None

\* the loop that finds where the number ends
RECURSIVE num_end_from(_, _)
num_end_from(str, i) ==
  IF i >= Len(str) THEN i
  ELSE IF ~is_ascii_digit(str[i + 1]) THEN i
  ELSE num_end_from(str, i + 1)

\* the unit table of backend/rotation.rs
rotation_multiplier(unit) ==
  CASE unit \in {<<"B">>, <<>>} -> Some(0)
    [] unit \in {<<"K", "B">>, <<"K">>} -> Some(1)
    [] unit \in {<<"M", "B">>, <<"M">>} -> Some(2)
    [] unit \in {<<"G", "B">>, <<"G">>} -> Some(3)
    [] unit \in {<<"T", "B">>, <<"T">>} -> Some(4)
    [] OTHER -> None

\* the unit table of backend/file.rs
file_multiplier(unit) ==
  CASE unit \in {<<"B">>, <<>>} -> Some(0)
    [] unit \in {<<"K", "B">>, <<"K">>} -> Some(1)
    [] unit \in {<<"M", "B">>, <<"M">>} -> Some(2)
    [] unit \in {<<"G", "B">>, <<"G">>} -> Some(3)
    [] OTHER -> None

\* the trimmed string cut where its number ends: <<num_str, unit>>, or <<>>
\* when the string is empty or does not start with a digit
size_parts(str) ==
  LET s0 == trim(str)
      num_end == num_end_from(s0, 0)
  IN IF s0 = <<>> \/ num_end = 0 THEN <<>>
     ELSE <<SubSeq(s0, 1, num_end),
            to_uppercase(trim(SubSeq(s0, num_end + 1, Len(s0))))>>

\* backend/rotation.rs parse_size_limit
rotation_parse_size_limit(str) ==
  LET parts == size_parts(str)
  IN IF parts = <<>> THEN None
     ELSE {<<n, k>> : n \in parse_u64(parts[1]), k \in rotation_multiplier(parts[2])}

\* backend/file.rs parse_size_limit
parse_size_limit(str) ==
  LET parts == size_parts(str)
  IN IF parts = <<>> THEN None
     ELSE {<<n, k>> : n \in parse_u64(parts[1]), k \in file_multiplier(parts[2])}

\* utils/error.rs validate_level, validate_rotation, validate_size_limit: a
\* word other than a size string is a string of one token
VALID_LEVELS ==
  {<<"TRACE">>, <<"DEBUG">>, <<"INFO">>, <<"SUCCESS">>, <<"WARNING">>, <<"WARN">>,
   <<"ERROR">>, <<"CRITICAL">>, <<"FAIL">>}

word_to_uppercase(w) == CASE w = <<"info">> -> <<"INFO">> [] OTHER -> to_uppercase(w)

word_to_lowercase(w) ==
  CASE w = <<"Daily">> -> <<"daily">> [] w = <<"HOURLY">> -> <<"hourly">>
    [] OTHER -> to_lowercase(w)

validate_level(level) == word_to_uppercase(level) \in VALID_LEVELS

validate_rotation(r) ==
  \/ word_to_lowercase(r) \in {<<"daily">>, <<"hourly">>, <<"minutely">>}
  \/ parse_size_str(r) # None

validate_size_limit(size) == parse_size_str(size) # None

\* the size strings the parsers are applied to
MaxSizeStrLen == 4

SizeChars == {"1", "K", "k", "B", "T", " ", "+"}

SizeStrings == UNION {[1..n -> SizeChars] : n \in 0..MaxSizeStrLen}

\* add(): the validation of its arguments.  "Ok" stands for going on to the
\* registration, "Err" for the rejected call.
AddCalls ==
  [fn : {"add"},
   filter_min_level : {None, Some(<<"info">>), Some(<<"LOUD">>)},
   rotation : {None, Some(<<"Daily">>), Some(<<"HOURLY">>), Some(<<"weekly">>)},
   size_limit : {None} \cup {Some(str) : str \in SizeStrings}]

AddValidates ==
  /\ call.fn = "add"
  /\ result = <<>>
  /\ result' = <<IF /\ \A level \in call.filter_min_level : validate_level(level)
                    /\ \A r \in call.rotation : validate_rotation(r)
                    /\ \A sl \in call.size_limit : validate_size_limit(sl)
                 THEN "Ok" ELSE "Err">>
  /\ UNCHANGED <<wvars, rvars, appender, returned, recording, lk, ret, sarg, sres, call>>

\* the two parse_size_limit
ParseCalls ==
  [fn : {"file::parse_size_limit", "rotation::parse_size_limit"}, str : SizeStrings]

FileParseSizeLimit ==
  /\ call.fn = "file::parse_size_limit"
  /\ result = <<>>
  /\ result' = <<parse_size_limit(call.str)>>
  /\ UNCHANGED <<wvars, rvars, appender, returned, recording, lk, ret, sarg, sres, call>>

RotationParseSizeLimit ==
  /\ call.fn = "rotation::parse_size_limit"
  /\ result = <<>>
  /\ result' = <<rotation_parse_size_limit(call.str)>>
  /\ UNCHANGED <<wvars, rvars, appender, returned, recording, lk, ret, sarg, sres, call>>

(***************************************************************************)
(* PyLogger::search_log (logger.rs): complete(), then the lookup of the    *)
(* sink's path and search_file on it.  The steps of its complete() are     *)
(* SearchComplete and then the steps of complete above.                    *)
(***************************************************************************)
\* a search_log call is in progress
Searching == sarg # 0 /\ sres = <<>>

\* the file name a sink's path names: the string add() also handed to
\* make_file_appender, the writer's base_path
SinkPath(path) == IF path = "app.log" THEN <<ChA, DOT, ChL>> ELSE <<>>

\* search_log(sink_id, ..) begins: complete()'s first with_state
SearchComplete ==
  /\ cpc = "idle"
  /\ ~Searching
  /\ \E sink_id \in HandlerIds : sarg' = sink_id
  /\ sres' = <<>>
  /\ async_senders' = {}
  /\ handles' = async_handles
  /\ async_handles' = <<>>
  /\ cpc' = "join"
  /\ completeReturned' = FALSE
  /\ ret' = None
  /\ UNCHANGED <<sinks, next_handler_id, file_writers, file_writer, async_write,
                 async_sender, async_handle, workers, legacy_pc, out, cur, cargs,
                 warnings, dispatched>>
  /\ call' = <<>>
  /\ result' = <<>>
  /\ UNCHANGED <<wvars, nlogs, lost, raced, appender, recording, lk, returned>>

\* the lines of a file of the directory: every byte written is the line "e"
FileLines(path) == [i \in 1..fs[path].size |-> <<"e">>]

\* SearchOptions::default() but for use_regex
DefaultOptions(use_regex) ==
  [case_sensitive |-> FALSE, first_only |-> FALSE, use_regex |-> use_regex,
   start_line |-> None, end_line |-> None, max_results |-> None,
   context_before |-> None, context_after |-> None, level_filter |-> None,
   invert_match |-> FALSE]

\* the patterns and options of search_log (the literal "e", the regex "("),
\* and whether the file's lines can be read once it is open
SearchLogInputs ==
  [fn : {"search_log"}, pattern : {<<"e">>}, use_regex : {FALSE}, read_ok : BOOLEAN]
  \cup [fn : {"search_log"}, pattern : {<<"(">>}, use_regex : {TRUE}, read_ok : BOOLEAN]

\* search_log's second half, a bug: a regex that does not compile gives
\* Ok(None) like a file that cannot be read
SearchFileRegexAbsent ==
  /\ cpc = "idle"
  /\ Searching
  /\ \E in \in SearchLogInputs :
       LET file_path == IF sarg \in DOMAIN sinks /\ sinks[sarg].path # "console"
                        THEN Some(SinkPath(sinks[sarg].path)) ELSE None
           opened_path == {path \in file_path : path \in DOMAIN fs /\ in.read_ok}
       IN /\ call' = in
          /\ sres' = <<opened_path>>
          /\ result' = <<{search_file(FileLines(path), in.pattern,
                                       DefaultOptions(in.use_regex)) :
                             path \in {q \in opened_path :
                                         ~in.use_regex \/ regex_new_ok(in.pattern)}}>>
  /\ UNCHANGED <<wvars, rvars, appender, returned, recording, lk, ret, sarg>>

\* complete() has returned: s.sinks.get(&sink_id).and_then(|sink| sink.path),
\* then search_file(path), which opens that path and reads its lines;
\* Ok(None) without a path or when the open or a read fails, else Ok(Some(..))
\* of what search_file found in the file
SearchFile ==
  /\ cpc = "idle"
  /\ Searching
  /\ \E in \in SearchLogInputs :
       LET file_path == IF sarg \in DOMAIN sinks /\ sinks[sarg].path # "console"
                        THEN Some(SinkPath(sinks[sarg].path)) ELSE None
           opened_path == {path \in file_path : path \in DOMAIN fs /\ in.read_ok}
       IN /\ call' = in
          /\ sres' = <<opened_path>>
          /\ result' = <<{search_file(FileLines(path), in.pattern,
                                       DefaultOptions(in.use_regex)) :
                             path \in opened_path}>>
  /\ UNCHANGED <<wvars, rvars, appender, returned, recording, lk, ret, sarg>>

(***************************************************************************)
(* log_message (backend/logging.rs): the dispatch of one record, one       *)
(* critical section of with_state.  The sinks carry no level, module or    *)
(* function filter and the per-level controls are at their defaults, so    *)
(* every sink is allowed; the enabled flag is not read.                    *)
(***************************************************************************)
FileSinks == {id \in DOMAIN sinks : sinks[id].path # "console"}

Log ==
  /\ nlogs < MaxMsgs
  /\ LET m == nlogs + 1
         viaChannel == FileSinks \cap async_senders
         viaWriter == (FileSinks \ async_senders) \cap file_writers
     IN /\ nlogs' = m
        /\ workers' = [id \in DOMAIN workers |->
                         IF id \in viaChannel
                         THEN [workers[id] EXCEPT !.chan = Append(@, m),
                                                  !.sent = Append(@, m)]
                         ELSE workers[id]]
        /\ out' = [id \in DOMAIN out |->
                     IF id \in viaWriter THEN out[id] \o <<m, NL>> ELSE out[id]]
        /\ dispatched' = [id \in DOMAIN dispatched |->
                            IF id \in FileSinks THEN Append(dispatched[id], m)
                            ELSE dispatched[id]]
        /\ lost' = lost \cup {<<id, m>> : id \in FileSinks \ (async_senders \cup file_writers)}
  /\ raced' = (raced \/ cpc # "idle")
  /\ completeReturned' = FALSE
  /\ ret' = None
  /\ UNCHANGED <<appender, returned, recording, lk, call, result, sarg, sres>>
  /\ UNCHANGED wvars
  /\ UNCHANGED <<sinks, next_handler_id, file_writers, async_senders, async_handles,
                 file_writer, async_write, async_sender, async_handle, legacy_pc,
                 cpc, cur, cargs, handles, warnings>>

(***************************************************************************)
(* path_for_period applied to a path: base.with_file_name(new_name) keeps  *)
(* the parent of base.  A path is its parent and its file name.            *)
(***************************************************************************)
MaxNameLen == 3

NameChars == {DOT, ChA, ChL}

FileNames == UNION {[1..n -> NameChars] : n \in 0..MaxNameLen}

Parents == {<<>>, <<ChH>>}

PeriodTokens ==
  {<<>>, period_string("DAILY", 0), period_string("HOURLY", SecsPerHour),
   timestamp_string(1)}

PathCalls ==
  [fn : {"path_for_period"}, base : [parent : Parents, file_name : FileNames],
   period : PeriodTokens, date_style : DateStyles \cup {"suffix"}]

PathForPeriod ==
  /\ call.fn = "path_for_period"
  /\ result = <<>>
  /\ result' = <<[parent |-> call.base.parent,
                  file_name |-> path_for_period(call.base.file_name, call.period,
                                                call.date_style)]>>
  /\ UNCHANGED <<wvars, rvars, appender, returned, recording, lk, ret, sarg, sres, call>>

(***************************************************************************)
(* The rotation argument of add(): validate_rotation accepts it, the match *)
(* in add() records the sink's RotationPolicy, sink_info reports it, and   *)
(* make_file_appender gives the writer its Rotation and its size limit.    *)
(***************************************************************************)
\* backend::parse_size_limit names the parser of backend/file.rs or that of
\* backend/rotation.rs (both are re-exported by backend/mod.rs)
backend_parse_size_limit(parser, str) ==
  IF parser = "file" THEN parse_size_limit(str) ELSE rotation_parse_size_limit(str)

\* add(): the RotationPolicy recorded in the SinkConfig
rotation_policy(parser, rot) ==
  IF rot = None THEN <<"Never">>
  ELSE LET r == CHOOSE r \in rot : TRUE
       IN CASE r = <<"daily">> -> <<"Daily">>
            [] r = <<"hourly">> -> <<"Hourly">>
            [] r = <<"minutely">> -> <<"Minutely">>
            [] OTHER ->
                 LET size == backend_parse_size_limit(parser, r)
                 IN IF size # None THEN <<"Size", CHOOSE b \in size : TRUE>>
                    ELSE <<"Never">>

\* sink_info: the "rotation" entry
sink_info_rotation(policy) ==
  CASE policy = <<"Never">> -> <<"never">>
    [] policy = <<"Daily">> -> <<"daily">>
    [] policy = <<"Hourly">> -> <<"hourly">>
    [] policy = <<"Minutely">> -> <<"minutely">>
    [] OTHER -> <<policy[2], "B">>

\* backend/file.rs rotation_from_str
rotation_from_str(rot) ==
  IF rot = Some(<<"daily">>) THEN "DAILY"
  ELSE IF rot = Some(<<"hourly">>) THEN "HOURLY"
  ELSE IF rot = Some(<<"minutely">>) THEN "MINUTELY"
  ELSE "NEVER"

\* make_file_appender: the Rotation and the size limit SimpleRollingWriter::new gets
appender_rotation(rot, date_enabled) ==
  IF ~date_enabled THEN "NEVER" ELSE rotation_from_str(rot)

appender_size_limit(size) == UNION {parse_size_limit(str) : str \in size}

\* the rotation arguments and the calls
RotationArgs ==
  {None, Some(<<"daily">>), Some(<<"Daily">>), Some(<<"HOURLY">>), Some(<<"minutely">>),
   Some(<<"weekly">>), Some(<<"1", "K", "B">>), Some(<<"1", "B">>), Some(<<"1">>),
   Some(<<"1", " ", "k", "b">>)}

RotationCalls ==
  [fn : {"add_rotation"}, rotation : RotationArgs,
   size_limit : {None, Some(<<"1", "K", "B">>)}, date_enabled : BOOLEAN,
   parser : {"file", "rotation"}]

\* add() of a file sink with a rotation argument
AddRotation ==
  /\ call.fn = "add_rotation"
  /\ result = <<>>
  /\ result' =
       IF \A r \in call.rotation : validate_rotation(r)
       THEN LET policy == rotation_policy(call.parser, call.rotation)
            IN <<[accepted |-> TRUE, policy |-> policy,
                  info |-> sink_info_rotation(policy),
                  rotation |-> appender_rotation(call.rotation, call.date_enabled),
                  size_limit |-> appender_size_limit(call.size_limit)]>>
       ELSE <<[accepted |-> FALSE]>>
  /\ UNCHANGED <<wvars, rvars, appender, returned, recording, lk, ret, sarg, sres, call>>

(***************************************************************************)
(* The per-sink filters of log_message (backend/logging.rs), for a file    *)
(* sink: the level filter add() recorded, the module and function filters, *)
(* the per-level storage switch.                                           *)
(***************************************************************************)
\* tracing::Level, the least severe first
Levels == <<"TRACE", "DEBUG", "INFO", "WARN", "ERROR">>

Severity(level) == CHOOSE i \in 1..Len(Levels) : Levels[i] = level

\* utils/levels.rs to_level, the name lowercased
to_level(name) ==
  CASE name \in {"trace", "TRACE"} -> Some("TRACE")
    [] name \in {"debug", "DEBUG"} -> Some("DEBUG")
    [] name \in {"info", "INFO", "success", "SUCCESS"} -> Some("INFO")
    [] name \in {"warn", "WARN", "warning", "WARNING"} -> Some("WARN")
    [] name \in {"error", "ERROR", "critical", "CRITICAL", "fatal", "FATAL"} -> Some("ERROR")
    [] OTHER -> None

\* utils/levels.rs to_filter: the LevelFilter of the same name
to_filter(level) == level

\* SinkConfig.min_level as add() records it
sink_min_level(filter_min_level) ==
  {to_filter(level) : level \in UNION {to_level(name) : name \in filter_min_level}}

\* allow_sink of log_message for a file sink: pairs holds the record's module
\* and function, storage what storage_levels has for the record's level
allow_sink(min_level, module_filter, function_filter, level, pairs, storage) ==
  /\ \A min \in min_level : ~(to_filter(level) # min)
  /\ \A want_mod \in module_filter : want_mod \in pairs.module
  /\ \A want_fn \in function_filter : want_fn \in pairs.function
  /\ \A enabled \in storage : enabled

\* the level names add() accepts that are used here, and the calls
MinLevelNames == {"trace", "DEBUG", "info", "SUCCESS", "warning", "error", "CRITICAL", "FAIL"}

FilterCalls ==
  [fn : {"allow_sink"},
   filter_min_level : {None} \cup {Some(name) : name \in MinLevelNames},
   filter_module : {None, Some("m")}, filter_function : {None, Some("f")},
   level : {Levels[i] : i \in 1..Len(Levels)},
   pairs : [module : {None, Some("m"), Some("n")}, function : {None, Some("f")}],
   storage : {None, Some(TRUE), Some(FALSE)}]

\* add() records the filters, then log_message decides for the sink
AllowSink ==
  /\ call.fn = "allow_sink"
  /\ result = <<>>
  /\ result' = <<allow_sink(sink_min_level(call.filter_min_level), call.filter_module,
                            call.filter_function, call.level, call.pairs, call.storage)>>
  /\ UNCHANGED <<wvars, rvars, appender, returned, recording, lk, ret, sarg, sres, call>>

(***************************************************************************)
(* The locks.  with_state takes the write lock of LOGGER (config/state.rs) *)
(* for one closure; flush_buffer and log_message's synchronous fallback    *)
(* take the Mutex of the sink's writer.  One file sink, the caller of      *)
(* add/remove/complete, one thread that logs, the sink's worker and the    *)
(* legacy worker, a step per lock operation.                               *)
(***************************************************************************)
MaxCallerOps == 3

\* before anything is called
LkInit ==
  [registry |-> "free", writer |-> "free", caller |-> "idle", logger |-> "idle",
   worker |-> "none", after |-> "recv", legacy |-> "none",
   registered |-> FALSE, has_writer |-> FALSE, sender |-> FALSE, handle |-> FALSE,
   taken |-> FALSE, is_async |-> FALSE, file_writer |-> FALSE, async_write |-> TRUE,
   legacy_sender |-> FALSE, legacy_handle |-> FALSE, legacy_taken |-> FALSE,
   chan |-> 0, queue |-> 0, nops |-> 0, nlog |-> 0]

LkFrame == UNCHANGED <<wvars, rvars, appender, returned, recording, ret, sarg, sres,
                       call, result>>

\* where the caller waits for the registry lock, and the closure it then runs
CallerSection ==
  [add_check_wait |-> "add_check", add_sinks_wait |-> "add_sinks",
   add_writers_wait |-> "add_writers", add_start_wait |-> "add_start",
   add_legacy_wait |-> "add_legacy", add_legacy_start_wait |-> "add_legacy_start",
   remove_wait |-> "remove", take_wait |-> "take", take_legacy_wait |-> "take_legacy"]

\* the caller calls add (of the file sink, once), remove or complete
LkCallerCall ==
  /\ lk.caller = "idle"
  /\ lk.nops < MaxCallerOps
  /\ \/ /\ lk.worker = "none" /\ ~lk.registered
        /\ \E a \in BOOLEAN :
             lk' = [lk EXCEPT !.caller = "add_check_wait", !.is_async = a, !.nops = @ + 1]
     \/ lk' = [lk EXCEPT !.caller = "remove_wait", !.nops = @ + 1]
     \/ lk' = [lk EXCEPT !.caller = "take_wait", !.nops = @ + 1]
  /\ LkFrame

\* with_state: LOGGER.write() returns to the caller
LkCallerAcquire ==
  /\ lk.caller \in DOMAIN CallerSection
  /\ lk.registry = "free"
  /\ lk' = [lk EXCEPT !.registry = "caller", !.caller = CallerSection[lk.caller]]
  /\ LkFrame

\* add(): the duplicate check
LkAddCheck ==
  /\ lk.caller = "add_check"
  /\ lk' = [lk EXCEPT !.registry = "free", !.caller = "add_sinks_wait"]
  /\ LkFrame

\* add(): s.sinks.insert
LkAddSinks ==
  /\ lk.caller = "add_sinks"
  /\ lk' = [lk EXCEPT !.registry = "free", !.caller = "add_writers_wait",
                       !.registered = TRUE]
  /\ LkFrame

\* add(): s.file_writers.insert
LkAddWriters ==
  /\ lk.caller = "add_writers"
  /\ lk' = [lk EXCEPT !.registry = "free",
                       !.caller = IF lk.is_async THEN "add_start_wait"
                                  ELSE "add_legacy_wait",
                       !.has_writer = lk.registered \/ @]
  /\ LkFrame

\* add(): start_async_writer_for_sink
LkAddStart ==
  /\ lk.caller = "add_start"
  /\ lk' = [lk EXCEPT !.registry = "free", !.caller = "add_legacy_wait",
                       !.sender = TRUE, !.handle = TRUE, !.worker = "recv"]
  /\ LkFrame

\* add(): the legacy fields
LkAddLegacy ==
  /\ lk.caller = "add_legacy"
  /\ lk' = [lk EXCEPT !.registry = "free", !.caller = "add_legacy_start_wait",
                       !.file_writer = TRUE, !.async_write = lk.is_async]
  /\ LkFrame

\* add(): start_async_writer_if_needed
LkAddLegacyStart ==
  /\ lk.caller = "add_legacy_start"
  /\ LET start == lk.async_write /\ ~lk.legacy_sender /\ lk.file_writer
     IN lk' = [lk EXCEPT !.registry = "free", !.caller = "idle",
                         !.legacy_sender = start \/ @,
                         !.legacy_handle = start \/ @,
                         !.legacy = IF start THEN "running" ELSE @]
  /\ LkFrame

\* remove()
LkRemove ==
  /\ lk.caller = "remove"
  /\ lk' = [lk EXCEPT !.registry = "free", !.caller = "idle", !.registered = FALSE,
                       !.has_writer = FALSE, !.sender = FALSE]
  /\ LkFrame

\* complete(), a bug: the handles are joined inside the first with_state
LkCompleteTakeKeepsLock ==
  /\ lk.caller = "take"
  /\ lk' = [lk EXCEPT !.caller = "join", !.sender = FALSE,
                       !.taken = lk.handle, !.handle = FALSE]
  /\ LkFrame

\* complete(): the senders cleared and the handles taken, the lock released
LkCompleteTake ==
  /\ lk.caller = "take"
  /\ lk' = [lk EXCEPT !.registry = "free", !.caller = "join", !.sender = FALSE,
                       !.taken = lk.handle, !.handle = FALSE]
  /\ LkFrame

\* complete(): handle.join() of the handle taken, if any
LkCompleteJoin ==
  /\ lk.caller = "join"
  /\ lk.taken => lk.worker = "exited"
  /\ lk' = [lk EXCEPT !.caller = "take_legacy_wait", !.taken = FALSE]
  /\ LkFrame

\* complete(): the legacy sender and handle taken
LkCompleteTakeLegacy ==
  /\ lk.caller = "take_legacy"
  /\ lk' = [lk EXCEPT !.registry = "free", !.caller = "join_legacy",
                       !.legacy_sender = FALSE, !.legacy_taken = lk.legacy_handle,
                       !.legacy_handle = FALSE]
  /\ LkFrame

\* complete(): join of the legacy handle, if any, then return
LkCompleteJoinLegacy ==
  /\ lk.caller = "join_legacy"
  /\ lk.legacy_taken => lk.legacy = "exited"
  /\ lk' = [lk EXCEPT !.caller = "idle", !.legacy_taken = FALSE]
  /\ LkFrame

LkCaller ==
  \/ LkCallerCall \/ LkCallerAcquire \/ LkAddCheck \/ LkAddSinks \/ LkAddWriters
  \/ LkAddStart \/ LkAddLegacy \/ LkAddLegacyStart \/ LkRemove \/ LkCompleteTake
  \/ LkCompleteJoin \/ LkCompleteTakeLegacy \/ LkCompleteJoinLegacy

\* log_message is called
LkLogCall ==
  /\ lk.logger = "idle"
  /\ lk.nlog < MaxMsgs
  /\ lk' = [lk EXCEPT !.logger = "wait", !.nlog = @ + 1]
  /\ LkFrame

\* log_message: with_state's LOGGER.write() returns
LkLogAcquire ==
  /\ lk.logger = "wait"
  /\ lk.registry = "free"
  /\ lk' = [lk EXCEPT !.registry = "logger", !.logger = "dispatch"]
  /\ LkFrame

\* log_message: the sink's Sender if there is one, else its writer, else nothing
LkLogDispatch ==
  /\ lk.logger = "dispatch"
  /\ lk' = IF lk.registered /\ lk.sender
            THEN [lk EXCEPT !.chan = @ + 1, !.logger = "release"]
            ELSE IF lk.registered /\ lk.has_writer
            THEN [lk EXCEPT !.logger = "writer_wait"]
            ELSE [lk EXCEPT !.logger = "release"]
  /\ LkFrame

\* log_message: writer.lock() returns
LkLogLockWriter ==
  /\ lk.logger = "writer_wait"
  /\ lk.writer = "free"
  /\ lk' = [lk EXCEPT !.writer = "logger", !.logger = "write"]
  /\ LkFrame

\* log_message: writeln!, the writer's guard dropped
LkLogWrite ==
  /\ lk.logger = "write"
  /\ lk' = [lk EXCEPT !.writer = "free", !.logger = "release"]
  /\ LkFrame

\* log_message: with_state returns
LkLogRelease ==
  /\ lk.logger = "release"
  /\ lk' = [lk EXCEPT !.registry = "free", !.logger = "idle"]
  /\ LkFrame

LkLogger ==
  \/ LkLogCall \/ LkLogAcquire \/ LkLogDispatch \/ LkLogLockWriter \/ LkLogWrite
  \/ LkLogRelease

\* the worker receives a line and queues it; a threshold may ask for a flush
LkWorkerRecv ==
  /\ lk.worker = "recv"
  /\ lk.chan > 0
  /\ \E flush \in BOOLEAN :
       lk' = [lk EXCEPT !.chan = @ - 1, !.queue = @ + 1, !.after = "recv",
                        !.worker = IF flush THEN "flush_lock" ELSE "recv"]
  /\ LkFrame

\* the receive times out with lines queued
LkWorkerTimeout ==
  /\ lk.worker = "recv"
  /\ lk.chan = 0
  /\ lk.sender
  /\ lk.queue > 0
  /\ lk' = [lk EXCEPT !.worker = "flush_lock", !.after = "recv"]
  /\ LkFrame

\* the channel is empty and its Sender dropped: flush what is queued and exit
LkWorkerDisconnected ==
  /\ lk.worker = "recv"
  /\ lk.chan = 0
  /\ ~lk.sender
  /\ lk' = IF lk.queue > 0
            THEN [lk EXCEPT !.worker = "flush_lock", !.after = "exited"]
            ELSE [lk EXCEPT !.worker = "exited"]
  /\ LkFrame

\* flush_buffer: file_writer.lock() returns
LkWorkerLock ==
  /\ lk.worker = "flush_lock"
  /\ lk.writer = "free"
  /\ lk' = [lk EXCEPT !.writer = "worker", !.worker = "flush_write"]
  /\ LkFrame

\* flush_buffer: write!, flush, the guard dropped
LkWorkerWrite ==
  /\ lk.worker = "flush_write"
  /\ lk' = [lk EXCEPT !.writer = "free", !.queue = 0, !.worker = lk.after]
  /\ LkFrame

LkWorker ==
  \/ LkWorkerRecv \/ LkWorkerTimeout \/ LkWorkerDisconnected \/ LkWorkerLock
  \/ LkWorkerWrite

\* the legacy worker: nothing is sent to it; it exits once its Sender is dropped
LkLegacyDisconnected ==
  /\ lk.legacy = "running"
  /\ ~lk.legacy_sender
  /\ lk' = [lk EXCEPT !.legacy = "exited"]
  /\ LkFrame

(***************************************************************************)
(* Specifications.                                                         *)
(***************************************************************************)
\* LoggerState::default()
RegistryInit ==
  /\ sinks = <<>>
  /\ next_handler_id = 1
  /\ file_writers = {}
  /\ async_senders = {}
  /\ async_handles = <<>>
  /\ file_writer = FALSE
  /\ async_write = TRUE
  /\ async_sender = FALSE
  /\ async_handle = FALSE
  /\ workers = <<>>
  /\ legacy_pc = "none"
  /\ out = <<>>
  /\ cpc = "idle"
  /\ cur = 0
  /\ cargs = NoArgs
  /\ handles = <<>>
  /\ nlogs = 0
  /\ warnings = 0
  /\ dispatched = <<>>
  /\ lost = {}
  /\ raced = FALSE
  /\ completeReturned = FALSE
  /\ returned = <<>>
  /\ ret = None
  /\ sarg = 0
  /\ sres = <<>>
  /\ lk = LkInit

\* the rotating writer alone, the registry idle
InitW == WriterInit /\ RegistryInit /\ recording = FALSE /\ NoCall

NextW == WriteInPlace \/ WriteRotate \/ WriteRotateFailed \/ Tick

WSpec == InitW /\ [][NextW]_vars

\* the rotating writer in a directory that holds files of others
InitShared == WriterInitIn(SharedDir) /\ RegistryInit /\ recording = FALSE /\ NoCall

NextShared == WriteInPlace \/ WriteRotate \/ WriteRotateFailed \/ Tick

SharedDirSpec == InitShared /\ [][NextShared]_vars

\* the registry and its threads; one writer configuration stands by
Init ==
  /\ RegistryInit
  /\ WriterInit
  /\ base_path = <<ChA, DOT, ChL>>
  /\ date_style = "before_ext"
  /\ rotation = "NEVER"
  /\ size_limit = None
  /\ retention_count = None
  /\ recording = FALSE /\ NoCall

Worker(id) ==
  \/ WorkerRecv(id)
  \/ WorkerMaxLines(id)
  \/ WorkerTimeout(id)
  \/ WorkerDisconnected(id)

Complete ==
  \/ CompleteTakeHandles
  \/ CompleteJoin
  \/ CompleteTakeLegacy
  \/ CompleteJoinLegacy

Next ==
  \/ AddCheckDuplicate
  \/ AddInsertSink
  \/ AddFileWriter
  \/ AddStartAsyncWriter
  \/ AddLegacyFields
  \/ AddStartLegacyWriter
  \/ RemoveSink
  \/ RemoveAll
  \/ CompleteTakeHandles
  \/ CompleteJoin
  \/ CompleteTakeLegacy
  \/ CompleteJoinLegacy
  \/ Log
  \/ \E id \in 1..MaxSinks : WorkerRecv(id)
  \/ \E id \in 1..MaxSinks : WorkerMaxLines(id)
  \/ \E id \in 1..MaxSinks : WorkerTimeout(id)
  \/ \E id \in 1..MaxSinks : WorkerDisconnected(id)
  \/ LegacyDisconnected

Spec == Init /\ [][Next]_vars

\* the sinks' enabled flags: add, enable, disable, remove and the dispatch
NextToggle ==
  \/ AddCheckDuplicate
  \/ AddInsertSink
  \/ AddFileWriter
  \/ AddStartAsyncWriter
  \/ AddLegacyFields
  \/ AddStartLegacyWriter
  \/ RemoveSink
  \/ EnableSink
  \/ DisableSink
  \/ Log
  \/ \E id \in 1..MaxSinks : WorkerRecv(id)
  \/ \E id \in 1..MaxSinks : WorkerMaxLines(id)
  \/ \E id \in 1..MaxSinks : WorkerTimeout(id)
  \/ \E id \in 1..MaxSinks : WorkerDisconnected(id)

ToggleSpec == Init /\ [][NextToggle]_vars

\* Threads are scheduled: a worker that can take a step takes one, and so does
\* the caller inside complete().
FairSpec ==
  /\ Spec
  /\ \A id \in 1..MaxSinks : WF_vars(Worker(id))
  /\ WF_vars(LegacyDisconnected)
  /\ WF_vars(CompleteJoin \/ CompleteTakeLegacy \/ CompleteJoinLegacy)

\* the registry's operations, no record dispatched
NextRegistry ==
  \/ AddCheckDuplicate
  \/ AddInsertSink
  \/ AddFileWriter
  \/ AddStartAsyncWriter
  \/ AddLegacyFields
  \/ AddStartLegacyWriter
  \/ RemoveSink
  \/ RemoveAll
  \/ Reset
  \/ EnableSink
  \/ DisableSink
  \/ ListSinks
  \/ CompleteTakeHandles
  \/ CompleteJoin
  \/ CompleteTakeLegacy
  \/ CompleteJoinLegacy
  \/ \E id \in 1..MaxSinks : WorkerDisconnected(id)
  \/ LegacyDisconnected

\* as Init, in a run that records what the calls return
InitRegistry ==
  /\ RegistryInit
  /\ WriterInit
  /\ base_path = <<ChA, DOT, ChL>>
  /\ date_style = "before_ext"
  /\ rotation = "NEVER"
  /\ size_limit = None
  /\ retention_count = None
  /\ recording = TRUE /\ NoCall

RegistrySpec == InitRegistry /\ [][NextRegistry]_vars

\* add() with thresholds the lines reach: a buffer of 5 bytes for lines of 1, 2
\* and 3 bytes, and 0, 2 or 1000 lines (the default) queued at most
ThresholdArgs ==
  [sink : {"app.log"}, async_write : {TRUE}, buffer_size : {5},
   max_buffered_lines : {0, 2, 1000}]

\* the workers under these thresholds: add, remove, the dispatch, the workers
NextThresholds ==
  \/ AddCheckDuplicateOf(ThresholdArgs)
  \/ AddInsertSink
  \/ AddFileWriter
  \/ AddStartAsyncWriter
  \/ AddLegacyFields
  \/ AddStartLegacyWriter
  \/ RemoveSink
  \/ Log
  \/ \E id \in 1..MaxSinks : WorkerRecv(id)
  \/ \E id \in 1..MaxSinks : WorkerMaxLines(id)
  \/ \E id \in 1..MaxSinks : WorkerTimeout(id)
  \/ \E id \in 1..MaxSinks : WorkerDisconnected(id)

ThresholdSpec == Init /\ [][NextThresholds]_vars

\* add() with thresholds the lines stay below, so that only the timeout
\* flushes them
TimeoutArgs ==
  [sink : {"app.log"}, async_write : {TRUE}, buffer_size : {8192},
   max_buffered_lines : {2, 1000}]

\* add, the dispatch and the workers: complete() and remove() are never called
NextTimeouts ==
  \/ AddCheckDuplicateOf(TimeoutArgs)
  \/ AddInsertSink
  \/ AddFileWriter
  \/ AddStartAsyncWriter
  \/ AddLegacyFields
  \/ AddStartLegacyWriter
  \/ Log
  \/ \E id \in 1..MaxSinks : WorkerRecv(id)
  \/ \E id \in 1..MaxSinks : WorkerMaxLines(id)
  \/ \E id \in 1..MaxSinks : WorkerTimeout(id)

TimeoutSpec == Init /\ [][NextTimeouts]_vars

\* the same, each worker thread scheduled
TimeoutFairSpec ==
  /\ TimeoutSpec
  /\ \A id \in 1..MaxSinks : WF_vars(Worker(id))

\* add() of the console and of one file sink, sync or async
ConsoleArgs ==
  {[sink |-> "console", async_write |-> TRUE, buffer_size |-> 8192,
    max_buffered_lines |-> 1000]}

SearchArgs ==
  ConsoleArgs \cup [sink : {"app.log"}, async_write : BOOLEAN, buffer_size : {8192},
                    max_buffered_lines : {1000}]

\* the sink of app.log with its rotating writer, each rotation and size limit
InitSearch ==
  /\ RegistryInit
  /\ WriterInit
  /\ base_path = SinkPath("app.log")
  /\ date_style = "before_ext"
  /\ retention_count = None
  /\ recording = FALSE /\ NoCall

\* the sink's writer exists
HasWriter == FileSinks \cap file_writers # {}

\* add, search_log, the writes that reach the sink's writer, the workers' exit
NextSearch ==
  \/ (~Searching /\ AddCheckDuplicateOf(IF FileSinks = {} THEN SearchArgs ELSE ConsoleArgs))
  \/ AddInsertSink
  \/ AddFileWriter
  \/ AddStartAsyncWriter
  \/ AddLegacyFields
  \/ AddStartLegacyWriter
  \/ SearchComplete
  \/ CompleteJoin
  \/ CompleteTakeLegacy
  \/ CompleteJoinLegacy
  \/ SearchFile
  \/ (HasWriter /\ WriteInPlace)
  \/ (HasWriter /\ WriteRotate)
  \/ (HasWriter /\ WriteRotateFailed)
  \/ Tick
  \/ \E id \in 1..MaxSinks : WorkerDisconnected(id)
  \/ LegacyDisconnected

SearchSpec == InitSearch /\ [][NextSearch]_vars

\* a run that applies one function to one of Calls
InitCall(Calls) ==
  /\ RegistryInit
  /\ WriterInit
  /\ base_path = <<ChA, DOT, ChL>>
  /\ date_style = "before_ext"
  /\ rotation = "NEVER"
  /\ size_limit = None
  /\ retention_count = None
  /\ recording = FALSE
  /\ call \in Calls
  /\ result = <<>>

\* search_file alone
InitSearchFile == InitCall(SearchCalls)

NextSearchFile == SearchFileReturns

SearchFileSpec == InitSearchFile /\ [][NextSearchFile]_vars

\* the validation of add()'s arguments alone
InitAddValidates == InitCall(AddCalls)

NextAddValidates == AddValidates

AddValidatesSpec == InitAddValidates /\ [][NextAddValidates]_vars

\* the size parsers alone
InitParseSize == InitCall(ParseCalls)

NextParseSize == FileParseSizeLimit \/ RotationParseSizeLimit

ParseSizeSpec == InitParseSize /\ [][NextParseSize]_vars

\* path_for_period alone
InitPathForPeriod == InitCall(PathCalls)

NextPathForPeriod == PathForPeriod

PathForPeriodSpec == InitPathForPeriod /\ [][NextPathForPeriod]_vars

\* add()'s rotation argument alone
InitRotation == InitCall(RotationCalls)

NextRotation == AddRotation

RotationSpec == InitRotation /\ [][NextRotation]_vars

\* the per-sink filters alone
InitFilter == InitCall(FilterCalls)

NextFilter == AllowSink

FilterSpec == InitFilter /\ [][NextFilter]_vars

\* the locks and the threads that take them
NextLocks ==
  \/ LkCallerCall
  \/ LkCallerAcquire
  \/ LkAddCheck
  \/ LkAddSinks
  \/ LkAddWriters
  \/ LkAddStart
  \/ LkAddLegacy
  \/ LkAddLegacyStart
  \/ LkRemove
  \/ LkCompleteTake
  \/ LkCompleteJoin
  \/ LkCompleteTakeLegacy
  \/ LkCompleteJoinLegacy
  \/ LkLogCall
  \/ LkLogAcquire
  \/ LkLogDispatch
  \/ LkLogLockWriter
  \/ LkLogWrite
  \/ LkLogRelease
  \/ LkWorkerRecv
  \/ LkWorkerTimeout
  \/ LkWorkerDisconnected
  \/ LkWorkerLock
  \/ LkWorkerWrite
  \/ LkLegacyDisconnected

LockSpec == Init /\ [][NextLocks]_vars

\* every thread is scheduled
LockFairSpec ==
  /\ LockSpec
  /\ WF_vars(LkCaller)
  /\ WF_vars(LkLogger)
  /\ WF_vars(LkWorker)
  /\ WF_vars(LkLegacyDisconnected)

\* make_file_appender alone
InitAppender == AppenderInit /\ RegistryInit /\ recording = FALSE /\ NoCall

NextAppender == MakeFileAppender

AppenderSpec == InitAppender /\ [][NextAppender]_vars

(***************************************************************************)
(* Claims about the rotating writer, checked under WSpec.                  *)
(***************************************************************************)
\* the sink's log files that are on disk: the files its writer has opened
SinkFiles == opened \cap DOMAIN fs

\* the segments the writer has rotated away from and that still exist
CompletedSegments == SinkFiles \ {file}

\* C2: under a size limit of N bytes no completed segment holds more than N
\* bytes apart from the single write that triggered the rotation into it (every
\* write() appends all its bytes to the one file behind the handle).  Stated
\* for runs in which no open has failed.
C2_CompletedSegmentWithinLimit ==
  faults = 0 =>
    \A limit \in size_limit : \A p \in CompletedSegments :
      fs[p].size - trigger[p] <= limit

\* C4: with retention count k, after each rotation the directory holds at most
\* k rotated segments of the sink besides the segment just opened, and the
\* ones kept are the most recently modified.
C4_AtMostKRotatedSegments ==
  lastRotation = "ok" =>
    \A k \in retention_count :
      /\ Cardinality(CompletedSegments) <= k
      /\ \A t \in lastPruned : \A p \in CompletedSegments : t <= fs[p].mtime

\* C5: with retention count k, after a write that triggered a rotation the
\* sink's log files on disk number at most k, the active file included.
C5_AtMostKFilesWithActive ==
  lastRotation = "ok" =>
    \A k \in retention_count : Cardinality(SinkFiles) <= k

\* C10: in every reachable state of a rotating writer the open handle is the
\* file at the path derived from the writer's current rotation-period token.
C10_HandleAtCurrentPeriodPath ==
  file = path_for_period(base_path, current_period, date_style)

(***************************************************************************)
(* Claims about the registry, the dispatch and the workers.                *)
(***************************************************************************)
\* C1: when complete() returns, and every log call was made by the caller of
\* add() and complete() (none ran while one of these was in progress), each
\* sink's writer has received every line dispatched to the sink, exactly once
\* and in dispatch order.
C1_CompleteDeliversInOrder ==
  (completeReturned /\ ~raced) =>
    \A id \in DOMAIN out :
      /\ Lines(out[id]) = dispatched[id]
      /\ id \in DOMAIN workers => workers[id].wrote = workers[id].sent

\* C1, its case: complete() has returned after MaxMsgs lines went through one
\* sink's worker
C1_Witness ==
  /\ completeReturned
  /\ ~raced
  /\ \E id \in DOMAIN workers : Len(workers[id].wrote) = MaxMsgs

\* C3: while a sink's enabled flag is false a log call neither enqueues a
\* record on its channel nor writes one to its writer.
C3_DisabledSinkReceivesNothing ==
  [][nlogs' # nlogs =>
       \A id \in FileSinks :
         ~sinks[id].enabled =>
           /\ id \in DOMAIN workers => workers'[id].sent = workers[id].sent
           /\ id \in DOMAIN out => out'[id] = out[id]]_vars

\* the sender of worker id has been dropped
Closed(id) == id \in DOMAIN workers /\ id \notin async_senders

Exited(id) == id \in DOMAIN workers /\ workers[id].pc = "exited"

\* C6: once a sink's sender is dropped its worker eventually terminates; it
\* leaves with one flush of all that remained queued; when it has terminated
\* it has written every line that was enqueued, once and in order; and it
\* writes nothing afterwards.
C6_WorkerDrainsThenExits ==
  /\ \A id \in 1..MaxSinks : Closed(id) ~> Exited(id)
  /\ [](\A id \in DOMAIN workers :
          Exited(id) =>
            /\ workers[id].wrote = workers[id].sent
            /\ workers[id].chan = <<>>
            /\ workers[id].line_queue = <<>>)
  /\ [][\A id \in DOMAIN workers :
          /\ (workers[id].pc = "recv" /\ workers'[id].pc = "exited")
               => workers'[id].wrote = workers[id].wrote \o workers[id].line_queue
          /\ Exited(id) => workers'[id] = workers[id]]_vars

\* C6, its case: a worker whose sink was removed has terminated after writing
\* lines in its final flush
C6_Witness ==
  \E id \in DOMAIN workers :
    /\ id \notin DOMAIN sinks
    /\ workers[id].pc = "exited"
    /\ Len(workers[id].wrote) >= 2

\* C7: complete() always returns, and when it returns every worker thread has
\* exited and no producer handle and no worker handle remains registered.
C7_CompleteJoinsEveryWorker ==
  /\ (cpc \in {"join", "join_legacy"}) ~> (cpc = "idle")
  /\ [](completeReturned =>
          /\ async_senders = {}
          /\ async_handles = <<>>
          /\ handles = <<>>
          /\ ~async_sender
          /\ ~async_handle
          /\ \A id \in DOMAIN workers : workers[id].pc = "exited"
          /\ legacy_pc # "running")

\* C7, its case: complete() has returned after joining two workers and the
\* legacy worker
C7_Witness ==
  /\ completeReturned
  /\ Cardinality(DOMAIN workers) = 2
  /\ legacy_pc = "exited"

\* C8: a dispatch never finds a registered file sink without its writer and
\* its channel, so no record routed to a sink is lost.
C8_NoRecordLost == lost = {}

\* C9: per-sink FIFO: the lines in a sink's writer are in the order of their
\* dispatch (the line m is the one the m-th log call dispatched).
C9_PerSinkFifo ==
  \A id \in DOMAIN out :
    LET ls == Lines(out[id])
    IN \A i, j \in 1..Len(ls) : i < j => ls[i] < ls[j]

(***************************************************************************)
(* Claims about make_file_appender, checked under AppenderSpec.            *)
(***************************************************************************)
\* C11: make_file_appender never aborts, whichever opens fail: it returns the
\* rotating writer, else a plain append writer on the literal path, else a
\* writer on the last-resort file.
C11_AppenderNeverAborts ==
  /\ appender # "panicked"
  /\ appender = "plain" => file = base_path
  /\ appender = "fallback" => file = FallbackLog

(***************************************************************************)
(* Claims about the registry's operations, checked under RegistrySpec.     *)
(***************************************************************************)
\* C12: every add() returns an id strictly greater than every id an earlier
\* add() returned, whatever remove(), remove_all(), reset() and complete()
\* calls were made in between.
C12_IdsStrictlyIncrease ==
  \A i, j \in 1..Len(returned) : i < j => returned[i] < returned[j]

\* C12, its case: two ids were returned; the first sink was removed and
\* complete() ran before the second sink's worker was started
C12_Witness ==
  /\ Len(returned) = 2
  /\ DOMAIN sinks = {returned[2]}
  /\ returned[1] \in DOMAIN workers
  /\ async_handles = <<returned[2]>>

\* the registry: the fields of LoggerState that add, remove and complete use
registry == <<sinks, next_handler_id, file_writers, async_senders, async_handles,
              file_writer, async_write, async_sender, async_handle>>

\* C13: remove(id) returns true for every id, registered or not, on every
\* call; remove of an id that is not registered changes nothing in the
\* registry.
C13_RemoveReturnsTrue ==
  /\ [](\A r \in ret : r[1] = "remove" => r[3] = TRUE)
  /\ [][\A r \in ret' :
          (r[1] = "remove" /\ r[2] \notin DOMAIN sinks) => UNCHANGED registry]_vars

\* C13, its case: remove() has returned for an id that add() never returned,
\* a sink being registered
C13_Witness ==
  \E r \in ret :
    /\ r[1] = "remove"
    /\ \A i \in 1..Len(returned) : returned[i] # r[2]
    /\ sinks # <<>>

\* C14: after every disable_sink(id) call, the first or a later one, the sink
\* is disabled, and after every enable_sink(id) call it is enabled; the call
\* returns true for a registered id and false for an unknown one; it changes
\* nothing but that sink's enabled flag.
C14_EnableDisableIdempotent ==
  /\ [](\A r \in ret :
          r[1] \in {"enable_sink", "disable_sink"} =>
            /\ r[3] = (r[2] \in DOMAIN sinks)
            /\ r[2] \in DOMAIN sinks => sinks[r[2]].enabled = (r[1] = "enable_sink"))
  /\ [][\A r \in ret' :
          r[1] \in {"enable_sink", "disable_sink"} =>
            /\ UNCHANGED <<next_handler_id, file_writers, async_senders, async_handles,
                           file_writer, async_write, async_sender, async_handle>>
            /\ DOMAIN sinks' = DOMAIN sinks
            /\ \A id \in DOMAIN sinks :
                 [sinks'[id] EXCEPT !.enabled = sinks[id].enabled] = sinks[id]
            /\ \A id \in DOMAIN sinks \ {r[2]} : sinks'[id] = sinks[id]]_vars

\* C14, its case: disable_sink() has returned true for one of two registered
\* sinks, the other one being enabled
C14_Witness ==
  \E r \in ret :
    /\ r = <<"disable_sink", r[2], TRUE>>
    /\ \E other \in DOMAIN sinks \ {r[2]} : sinks[other].enabled
    /\ ~sinks[r[2]].enabled

\* C15: add(destination) emits one warning when a registered sink has the
\* same destination (console included) and none otherwise, and nothing else
\* emits one; the add returns a new id under which the sink is registered;
\* remove() of one sink leaves every other sink registered as it was.
C15_OneWarningPerDuplicate ==
  /\ [][warnings' = warnings +
           (IF /\ cpc = "idle"
               /\ cpc' = "add_insert"
               /\ \E id \in DOMAIN sinks : sinks[id].path = cargs'.sink
            THEN 1 ELSE 0)]_vars
  /\ [][returned' # returned =>
          /\ Len(returned') = Len(returned) + 1
          /\ \A i \in 1..Len(returned) : returned[i] # returned'[Len(returned')]
          /\ returned'[Len(returned')] \in DOMAIN sinks'
          /\ sinks'[returned'[Len(returned')]].path = cargs.sink]_vars
  /\ [][\A r \in ret' :
          r[1] = "remove" =>
            \A other \in DOMAIN sinks \ {r[2]} :
              other \in DOMAIN sinks' /\ sinks'[other] = sinks[other]]_vars

\* C15, its case: a second console sink was added with a warning, and one of
\* the two has been removed while the other stays registered
C15_Witness ==
  /\ warnings = 1
  /\ Len(returned) = 2
  /\ \E r \in ret : r[1] = "remove" /\ r[2] \in {returned[1], returned[2]}
  /\ Cardinality(DOMAIN sinks) = 1
  /\ \A id \in DOMAIN sinks : sinks[id].path = "console"
  /\ DOMAIN workers = {}

\* the bytes of the lines a worker holds unflushed
HeldBytes(w) == TokensLen(w.buffer) + TokensLen(w.line_queue)

\* C16: the lines a worker holds unflushed are never more than buffer_size
\* bytes together.
C16_HeldBytesWithinBufferSize ==
  \A id \in DOMAIN workers : HeldBytes(workers[id]) <= workers[id].buffer_size

\* a worker that has received a line and is back at its receive
Processed(w) == w.pc = "recv" /\ Len(w.chan) < Len(w.sent)

\* C17, as stated: after a worker has processed a message it holds fewer
\* than max_buffered_lines unflushed lines.
C17_FewerThanMaxLines ==
  \A id \in DOMAIN workers :
    Processed(workers[id]) =>
      Len(workers[id].line_queue) < workers[id].max_buffered_lines

\* C17, amended: after a worker has processed a message it holds no unflushed
\* line or fewer than max_buffered_lines of them.
C17_NoneOrFewerThanMaxLines ==
  \A id \in DOMAIN workers :
    Processed(workers[id]) =>
      \/ workers[id].line_queue = <<>>
      \/ Len(workers[id].line_queue) < workers[id].max_buffered_lines

\* C17, its case: the second line brought the queue to max_buffered_lines = 2
\* and both lines went to the file in one flush before the next receive
C17_Witness ==
  \E id \in DOMAIN workers :
    /\ workers[id].max_buffered_lines = 2
    /\ Processed(workers[id])
    /\ workers[id].line_queue = <<>>
    /\ id \in async_senders
    /\ out[id] = <<1, NL, 2>>

\* the async sinks whose channel complete() has closed: registered file sinks
\* with a worker and no Sender
ClosedSinks == (FileSinks \cap DOMAIN workers) \ async_senders

\* C18: a record dispatched to an async sink whose channel complete() has
\* closed is not written to the sink's file.
C18_SendAfterCloseDropped ==
  [][nlogs' # nlogs => \A id \in ClosedSinks : out'[id] = out[id]]_vars

\* C19: no step of search_log changes the registry: the sinks, the writers,
\* the producer handles (Senders) and the workers' join handles.
C19_SearchMutatesNothing ==
  [][(Searching \/ Searching') => UNCHANGED registry]_vars

\* C20: search_log of a registered file sink that has been written to reads
\* the file the sink's writer is appending to.
C20_SearchReadsCurrentFile ==
  [][(/\ Searching
      /\ sres' # <<>>
      /\ sarg \in FileSinks \cap file_writers
      /\ nwrites > 0) => sres' = <<Some(file)>>]_vars

\* the numbers of the lines the options select, by the statement of the filter
Selected(all_lines, pattern, o) ==
  {n \in 1..Len(all_lines) :
     /\ \A first \in o.start_line : n >= first
     /\ \A last \in o.end_line : n <= last
     /\ \A level \in o.level_filter :
          contains(to_uppercase(all_lines[n]), to_uppercase(level))
     /\ LET matching ==
              IF o.use_regex THEN regex_find_all(pattern, all_lines[n]) # {}
              ELSE IF o.case_sensitive THEN contains(all_lines[n], pattern)
              ELSE contains(to_lowercase(all_lines[n]), to_lowercase(pattern))
        IN matching # o.invert_match}

C22_AbsentOrEmpty ==
  [][(result = <<>> /\ result' # <<>>) =>
       LET unknown == sarg \notin DOMAIN sinks
           console == ~unknown /\ sinks[sarg].path = "console"
           unreadable == /\ ~unknown /\ ~console
                         /\ \/ SinkPath(sinks[sarg].path) \notin DOMAIN fs
                            \/ ~call'.read_ok
       IN /\ (result' = <<None>>) <=> (unknown \/ console \/ unreadable)
          /\ (/\ ~(unknown \/ console \/ unreadable)
              /\ call'.use_regex
              /\ ~regex_new_ok(call'.pattern)) => result' = <<Some(<<>>)>>]_vars

\* C22, its case: the search of a written file with a regex that does not
\* compile returned the empty list
C22_Witness ==
  /\ result = <<Some(<<>>)>>
  /\ call.use_regex /\ call.pattern = <<"(">>
  /\ sres = <<Some(file)>>
  /\ fs[file].size > 0

\* the length of the write a step of the writer made
WrittenLen == IF lastRotation' = "ok" THEN current_size' ELSE current_size' - current_size

\* C23: a write rotates exactly when the period token for now differs from
\* the recorded one or current_size plus the length of the write reaches the
\* size limit; otherwise it goes to the segment already open.
C23_RotatesExactlyWhenDue ==
  [][nwrites' # nwrites =>
       LET due == \/ period_string(rotation, now) # current_period
                  \/ \E limit \in size_limit : current_size + WrittenLen >= limit
       IN /\ (lastRotation' # "none") <=> due
          /\ lastRotation' = "none" =>
               /\ file' = file
               /\ fs'[file].size = fs[file].size + WrittenLen]_vars

\* the size-limit grammar ^\s*\d+\s*(B|KB|K|MB|M|GB|G|TB|T)?\s*$, any letter
\* case: the sizes <<n, k>> it gives a string (none, or one)
GrammarUnits ==
  (<<>> :> 0) @@ (<<"B">> :> 0) @@ (<<"K", "B">> :> 1) @@ (<<"K">> :> 1)
  @@ (<<"M", "B">> :> 2) @@ (<<"M">> :> 2) @@ (<<"G", "B">> :> 3) @@ (<<"G">> :> 3)
  @@ (<<"T", "B">> :> 4) @@ (<<"T">> :> 4)

IsSpaces(str) == \A i \in 1..Len(str) : str[i] = " "

IsDigits(str) == str # <<>> /\ \A i \in 1..Len(str) : str[i] \in {DigitChars[d] : d \in 1..10}

GrammarSizes(str) ==
  {<<DigitsValue(SubSeq(str, a + 1, b)), GrammarUnits[to_uppercase(SubSeq(str, c + 1, d))]>> :
     <<a, b, c, d>> \in
       {q \in (0..Len(str)) \X (0..Len(str)) \X (0..Len(str)) \X (0..Len(str)) :
          /\ q[1] < q[2] /\ q[2] <= q[3] /\ q[3] <= q[4]
          /\ IsSpaces(SubSeq(str, 1, q[1]))
          /\ IsDigits(SubSeq(str, q[1] + 1, q[2]))
          /\ IsSpaces(SubSeq(str, q[2] + 1, q[3]))
          /\ to_uppercase(SubSeq(str, q[3] + 1, q[4])) \in DOMAIN GrammarUnits
          /\ IsSpaces(SubSeq(str, q[4] + 1, Len(str)))}}

\* C24: add() is rejected exactly when its level or rotation is invalid or
\* its size_limit does not match the size-limit grammar.
C24_RejectedExactlyWhenInvalid ==
  result # <<>> =>
    (result = <<"Err">>) <=>
      \/ \E level \in call.filter_min_level : word_to_uppercase(level) \notin VALID_LEVELS
      \/ \E r \in call.rotation :
           /\ word_to_lowercase(r) \notin {<<"daily">>, <<"hourly">>, <<"minutely">>}
           /\ GrammarSizes(r) = {}
      \/ \E sl \in call.size_limit : GrammarSizes(sl) = {}

\* C25: the size parser returns the size the grammar gives the string, and
\* no value for a string outside the grammar.
C25_ParsesTheGrammar ==
  result # <<>> => result = <<GrammarSizes(call.str)>>

\* C26: list_sinks() returns the ids of exactly the registered sinks in the
\* order in which they were added, which is the ascending order of the ids.
C26_ListInInsertionOrder ==
  \A r \in ret :
    r[1] = "list_sinks" =>
      /\ {r[3][i] : i \in DOMAIN r[3]} = DOMAIN sinks
      /\ \A i, j \in DOMAIN r[3] : i < j => r[3][i] < r[3][j]

BeforeExtNames(name, token) ==
  {SubSeq(name, 1, i - 1) \o <<DOT>> \o token \o <<DOT>> \o SubSeq(name, i + 1, Len(name)) :
     i \in {j \in 1..Len(name) :
              name[j] = DOT /\ \A k \in (j + 1)..Len(name) : name[k] # DOT}}

HasExtension(name) == \E i \in 1..Len(name) : name[i] = DOT

\* C28: for a non-empty token the segment's name is <stem>.<token>.<ext> under
\* "before_ext" (<name>.<token> when the name has no extension) and
\* <token>.<name> under "prefix" (<token><name> when the name starts with a
\* dot), in the directory of the base; for an empty token the path is the base.
C28_SegmentPathNaming ==
  (call # <<>> /\ call.fn = "path_for_period" /\ result # <<>>) =>
    LET name == call.base.file_name
        token == call.period
        path == result[1]
    IN /\ path.parent = call.base.parent
       /\ token = <<>> => path = call.base
       /\ (token # <<>> /\ call.date_style = "before_ext") =>
            IF HasExtension(name)
            THEN path.file_name \in BeforeExtNames(name, token)
            ELSE path.file_name = name \o <<DOT>> \o token
       /\ (token # <<>> /\ call.date_style = "prefix") =>
            IF name # <<>> /\ name[1] = DOT
            THEN path.file_name = token \o name
            ELSE path.file_name = token \o <<DOT>> \o name

\* C28, its case: a name with an extension and a token, under "before_ext"
C28_Witness ==
  /\ call # <<>> /\ call.fn = "path_for_period" /\ result # <<>>
  /\ call.base = [parent |-> <<ChH>>, file_name |-> <<ChA, DOT, ChL>>]
  /\ call.period = period_string("DAILY", 0)
  /\ call.date_style = "before_ext"
  /\ result[1].file_name = <<ChA, DOT>> \o period_string("DAILY", 0) \o <<DOT, ChL>>

\* C29: every rotation opens a file the writer has not had open before; so
\* after a size rotation into a timestamp-named segment no later rotation
\* goes back to the file of the period or to the base file.
C29_RotationOpensNewSegment ==
  [][(nwrites' # nwrites /\ lastRotation' = "ok") => file' \notin opened]_vars

\* C30: in a file sink's output every record has its own line: between two
\* consecutive records there is exactly one newline, however the worker
\* grouped them into flushes and whichever path wrote them.
C30_OneNewlineBetweenRecords ==
  \A id \in DOMAIN out :
    \A i \in 1..(Len(out[id]) - 1) : (out[id][i] = NL) # (out[id][i + 1] = NL)

\* C39: the name path_for_period gives a base, a style and a non-empty token
\* is a name the retention scan accepts for that base and style.
C39_SegmentNameMatchesPrunePattern ==
  (call # <<>> /\ call.fn = "path_for_period" /\ result # <<>> /\ call.period # <<>>) =>
    prune_matches(result[1].file_name, call.base.file_name, call.date_style)

\* C37: a search returns at most max_results results, whatever max_results
\* is (0 included), at most one with first_only, and they are the first
\* selected lines of the file, in its order.
C37_AtMostMaxResults ==
  \A found \in {result[i] : i \in 1..Len(result)} :
    (call.fn = "search_file") =>
      LET sel == Selected(call.all_lines, call.pattern, call.o)
          nums == {found[i].line_number : i \in 1..Len(found)}
      IN /\ \A max \in call.o.max_results : Len(found) <= max
         /\ call.o.first_only => Len(found) <= 1
         /\ \A i, j \in 1..Len(found) :
              i < j => found[i].line_number < found[j].line_number
         /\ \A n \in sel : \A m \in nums : n < m => n \in nums

\* C38: in every search result matched_text is a substring of content, also
\* for the results of an inverted search.
C38_MatchedTextInContent ==
  \A found \in {result[i] : i \in 1..Len(result)} :
    (call.fn = "search_file") =>
      \A i \in 1..Len(found) : contains(found[i].content, found[i].matched_text)

\* C33: the writer's byte counter equals the size of the file behind its
\* open handle: at construction, after every write and after every rotation,
\* also a rotation that opens a file which exists already.
C33_CounterEqualsFileSize ==
  file \in DOMAIN fs => current_size = fs[file].size

\* C34: retention pruning deletes only segments of its sink: every file a
\* step of the writer deletes is a file that writer has had open, never the
\* file of another sink or a file the logger did not create.
C34_PrunesOnlyOwnSegments ==
  [][(DOMAIN fs \ DOMAIN fs') \subseteq opened]_vars

\* the line m is in the sequence q
InSeq(m, q) == \E i \in 1..Len(q) : q[i] = m

\* C35: every line a worker has received is eventually written, also when no
\* further record arrives and complete() is never called; a receive timeout
\* with lines pending writes all of them.
C35_ReceivedLinesAreWritten ==
  /\ \A id \in 1..MaxSinks : \A m \in 1..MaxMsgs :
       (id \in DOMAIN workers /\ InSeq(m, workers[id].line_queue))
         ~> (id \in DOMAIN workers /\ InSeq(m, workers[id].wrote))
  /\ [][\A id \in DOMAIN workers \cap DOMAIN workers' :
          (/\ workers[id].pc = "recv" /\ workers[id].chan = <<>>
           /\ id \in async_senders
           /\ workers'[id].sent = workers[id].sent
           /\ workers'[id] # workers[id])
            => /\ workers'[id].line_queue = <<>>
               /\ workers'[id].wrote = workers[id].wrote \o workers[id].line_queue
               /\ out'[id] # out[id]]_vars

\* C35, its case: the one record sent was written while the sender lives and
\* complete() was never called: by the flush of a timeout
C35_Witness ==
  \E id \in DOMAIN workers :
    /\ workers[id].sent = <<1>> /\ workers[id].wrote = <<1>>
    /\ workers[id].pc = "recv"
    /\ workers[id].max_buffered_lines > 1
    /\ id \in async_senders
    /\ ~completeReturned

\* C36: once add() has returned, every registered file sink whose async flag
\* is set has its Sender registered, one join handle and a worker that has
\* not exited, as long as it is registered, also after complete().
C36_OneSenderOneWorker ==
  cpc = "idle" =>
    \A id \in FileSinks :
      sinks[id].async_write =>
        /\ id \in async_senders
        /\ id \in DOMAIN workers /\ workers[id].pc # "exited"
        /\ Cardinality({i \in 1..Len(async_handles) : async_handles[i] = id}) = 1

\* the level a name of add()'s filter_min_level stands for
NamedLevel(name) ==
  CASE name = "trace" -> "TRACE" [] name = "DEBUG" -> "DEBUG"
    [] name \in {"info", "SUCCESS"} -> "INFO" [] name = "warning" -> "WARN"
    [] OTHER -> "ERROR"

\* C31: a sink with filter_min_level L receives a record exactly when the
\* record's level is at least as severe as L and its other filters pass.
C31_MinLevelIsAMinimum ==
  (call # <<>> /\ call.fn = "allow_sink" /\ result # <<>>) =>
    \A name \in call.filter_min_level :
      result[1] <=>
        /\ Severity(call.level) >= Severity(NamedLevel(name))
        /\ \A want_mod \in call.filter_module : call.pairs.module = Some(want_mod)
        /\ \A want_fn \in call.filter_function : call.pairs.function = Some(want_fn)
        /\ call.storage # Some(FALSE)

\* C32: an accepted rotation argument takes effect as the policy it names:
\* a time keyword, in any letter case, is the policy recorded and reported
\* and the period the writer rotates on; a size string is the size recorded
\* and reported and the size the writer rotates at.
C32_AcceptedRotationTakesEffect ==
  (call # <<>> /\ call.fn = "add_rotation" /\ result # <<>> /\ result[1].accepted) =>
    \A r \in call.rotation :
      LET keyword == word_to_lowercase(r)
          made == result[1]
      IN IF keyword \in {<<"daily">>, <<"hourly">>, <<"minutely">>}
         THEN /\ made.info = keyword
              /\ made.rotation = CASE keyword = <<"daily">> -> "DAILY"
                                    [] keyword = <<"hourly">> -> "HOURLY"
                                    [] OTHER -> "MINUTELY"
         ELSE \A size \in GrammarSizes(r) :
                /\ made.policy = <<"Size", size>>
                /\ made.info = <<size, "B">>
                /\ made.size_limit = Some(size)

====
